---- MODULE Spec2Model ----
(***************************************************************************)
(* A model of JobApplicationFiller: the JobApplicationBot (per-site        *)
(* authentication, session store, applyToJob), the batchApply command that *)
(* drives it, and the ResumeParser's completeness analysis.                *)
(*                                                                         *)
(* A page is a snapshot of what the selectors of the code resolve to: the  *)
(* set of selectors whose first match is visible (vis) and the set whose   *)
(* first match exists but is hidden (hid).  A hostname is the sequence of  *)
(* its pieces ("www.", "linkedin", ".com"), so that String.includes is a   *)
(* search for a piece and Map key equality is equality of sequences.       *)
(***************************************************************************)
EXTENDS Integers, Sequences, FiniteSets, TLC

VARIABLES
  userData,       \* this.userData of the bot (the credentials part)
  loggedInSites,  \* this.loggedInSites: a Map, kept as its entries in insertion order
  sessionsFile,   \* the content of data/sessions.json (<<>>: no file yet)
  pc,             \* "idle" | "loop" (in batchApply's for loop) | "done" | "aborted"
  fileLines,      \* the lines of the batch file read by batchApply
  urls,           \* batchApply's urls array
  idx,            \* batchApply's loop variable i (0-based)
  results,        \* batchApply's results array
  calls,          \* history: the urls applyToJob was called with in this run
  loginOk,        \* history: the urls whose login flow succeeded on this bot
  runs,           \* history: how many bots were constructed so far
  last,           \* observation of the last applyToJob call (see ApplyObs)
  fnIn,           \* input of the function under check (function specifications)
  fnOut,          \* its output, "pending" before it ran
  parser,         \* the ResumeParser object: userData and missingFields
  userDataFile,   \* the content of data/user_data.json (NoFile: no file yet)
  editing,        \* the userData object of a running updateUserData command
  commands,       \* history: how many profile commands were started
  document,       \* the form controls of the page the content script runs on
  request,        \* history: the last message the content script received
  response        \* what it passed to sendResponse for that message

vars == <<userData, loggedInSites, sessionsFile, pc, fileLines, urls, idx, results, calls,
          loginOk, runs, last, fnIn, fnOut, parser, userDataFile, editing, commands,
          document, request, response>>

\* The state of the profile commands
profileVars == <<userDataFile, editing, commands>>

\* The state of the content script of the extension
contentVars == <<document, request, response>>

-----------------------------------------------------------------------------
(* Bounds *)

MaxRuns == 2        \* commands run one after the other (bots constructed)
MaxLines == 3       \* lines of the batch file
MaxIndicators == 3  \* selectors of a probe page that resolve to an element
MaxFormElems == 3   \* selectors of a generic login page that resolve to an element
MaxPasses == 2      \* parseResume calls on one ResumeParser

-----------------------------------------------------------------------------
(* Sequences *)

Range(s) == {s[k] : k \in 1..Len(s)}

SeqsUpTo(S, n) == UNION {[1..k -> S] : k \in 0..n}

RECURSIVE SubsetsUpTo(_, _)
\* The subsets of S of at most n elements
SubsetsUpTo(S, n) ==
  IF n = 0 THEN {{}}
  ELSE LET prev == SubsetsUpTo(S, n - 1)
       IN  prev \cup {t \cup {x} : t \in prev, x \in S}

RECURSIVE FilterSeq(_, _)
\* s.filter(x => x \in keep)
FilterSeq(s, keep) ==
  IF s = <<>> THEN <<>>
  ELSE IF Head(s) \in keep THEN <<Head(s)>> \o FilterSeq(Tail(s), keep)
       ELSE FilterSeq(Tail(s), keep)

-----------------------------------------------------------------------------
(* Hostnames and URLs *)

\* String.prototype.includes on a hostname: one of its pieces is the keyword.
\* The pieces other than the three keywords hold no keyword and join to none.
Includes(domain, keyword) == \E k \in 1..Len(domain) : domain[k] = keyword

hLinkedIn == <<"linkedin", ".com">>
hWwwLinkedIn == <<"www.", "linkedin", ".com">>
hIndeed == <<"www.", "indeed", ".com">>
hGlassdoor == <<"www.", "glassdoor", ".com">>
hMulti == <<"indeed", "-", "linkedin", ".com">>
hAcme == <<"jobs.", "acme", ".com">>

Hosts == {hLinkedIn, hWwwLinkedIn, hIndeed, hGlassdoor, hMulti, hAcme}

JobUrl(h) == [scheme |-> "https://", host |-> h, path |-> "/jobs/1"]

Urls == {JobUrl(h) : h \in Hosts}

\* new URL(url).hostname
Hostname(url) == url.host

-----------------------------------------------------------------------------
(* Pages and selectors *)

Pg(vis, hid, atLogin) == [vis |-> vis, hid |-> hid, atLogin |-> atLogin]

\* The :visible selectors of checkLoginRequirement and the selector each narrows.
VisibleOf(selector) ==
  CASE selector = "input[name=\"email\"]:visible" -> "input[name=\"email\"]"
    [] selector = "input[name=\"password\"]:visible" -> "input[name=\"password\"]"
    [] OTHER -> "none"

\* await page.$(selector) is not null
Query(page, selector) ==
  IF VisibleOf(selector) # "none" THEN VisibleOf(selector) \in page.vis
  ELSE selector \in page.vis \cup page.hid

\* element && await element.isVisible()
IsVisible(page, selector) == selector \in page.vis

applyButtonSelectors ==
  << "button:has-text(\"Apply\")", "a:has-text(\"Apply\")",
     "button:has-text(\"Apply Now\")", "a:has-text(\"Apply Now\")",
     "[role=\"button\"]:has-text(\"Apply\")", "[role=\"button\"]:has-text(\"Apply Now\")",
     "button:has-text(\"Easy Apply\")", "a:has-text(\"Easy Apply\")",
     "button:has-text(\"Quick Apply\")", "a:has-text(\"Quick Apply\")" >>

loginSelectors ==
  << "button:has-text(\"Sign In\")", "a:has-text(\"Sign In\")",
     "button:has-text(\"Log In\")", "a:has-text(\"Log In\")",
     "form[action*=\"login\"]", "form[action*=\"signin\"]",
     "input[name=\"username\"]", "input[name=\"email\"]:visible",
     "input[name=\"password\"]:visible" >>

loginIndicators ==
  << "button:has-text(\"Sign In\")", "a:has-text(\"Sign In\")",
     "button:has-text(\"Log In\")", "a:has-text(\"Log In\")" >>

loggedInIndicators ==
  << "[aria-label=\"Profile\"]", "[aria-label=\"Account\"]",
     ".user-profile", ".user-avatar", ".profile-menu" >>

usernameSelectors ==
  << "input[type=\"email\"]", "input[name=\"email\"]", "input[id=\"email\"]",
     "input[name=\"username\"]", "input[id=\"username\"]",
     "input[name=\"user\"]", "input[id=\"user\"]" >>

passwordSelectors ==
  << "input[type=\"password\"]", "input[name=\"password\"]", "input[id=\"password\"]",
     "input[name=\"pwd\"]", "input[id=\"pwd\"]" >>

submitSelectors ==
  << "button[type=\"submit\"]", "input[type=\"submit\"]",
     "button:has-text(\"Sign In\")", "button:has-text(\"Log In\")",
     "button:has-text(\"Login\")", "a:has-text(\"Sign In\")", "a:has-text(\"Log In\")" >>

\* for (const selector of selectors) { if (await page.$(selector)) return it } return null
FirstPresent(page, selectors) ==
  IF \E k \in 1..Len(selectors) : Query(page, selectors[k])
  THEN selectors[CHOOSE k \in 1..Len(selectors) :
                   /\ Query(page, selectors[k])
                   /\ \A j \in 1..(k - 1) : ~Query(page, selectors[j])]
  ELSE "null"

\* for (const selector of selectors) { if (field && await field.isVisible()) {..; break} }
FirstVisible(page, selectors) ==
  IF \E k \in 1..Len(selectors) : IsVisible(page, selectors[k])
  THEN selectors[CHOOSE k \in 1..Len(selectors) :
                   /\ IsVisible(page, selectors[k])
                   /\ \A j \in 1..(k - 1) : ~IsVisible(page, selectors[j])]
  ELSE "null"

findApplyButton(page) == FirstPresent(page, applyButtonSelectors)

checkLoginRequirement(page) == FirstPresent(page, loginSelectors) # "null"

checkIfStillLoggedInSwapped(page) ==
  IF FirstVisible(page, loggedInIndicators) # "null" THEN TRUE
  ELSE FALSE

checkIfStillLoggedIn(page) ==
  IF FirstVisible(page, loginIndicators) # "null" THEN FALSE
  ELSE IF FirstVisible(page, loggedInIndicators) # "null" THEN TRUE
  ELSE FALSE

-----------------------------------------------------------------------------
(* Credentials, cookies and the session store *)

\* userData.xCredentials that is undefined
NoCred == [username |-> "<undefined>", password |-> "<undefined>"]

Cred(u) == [username |-> u, password |-> "secret"]

\* cookies.find(...) or cookies[0] that is undefined
NoCookie == [name |-> "<undefined>", value |-> "<undefined>"]

Cookie(n, v) == [name |-> n, value |-> v]

\* no Map key: the call wrote no Session
NoKey == <<>>

\* no Map entry
NoSession == [domain |-> NoKey, username |-> "<undefined>", cookie |-> NoCookie]

\* cookies.find(c => c.name === name)
FindCookie(jar, name) ==
  IF \E k \in 1..Len(jar) : jar[k].name = name
  THEN jar[CHOOSE k \in 1..Len(jar) :
             /\ jar[k].name = name
             /\ \A j \in 1..(k - 1) : jar[j].name # name]
  ELSE NoCookie

\* cookies[0]
FirstCookie(jar) == IF jar = <<>> THEN NoCookie ELSE jar[1]

\* this.loggedInSites.has(key)
MapHas(sites, key) == \E k \in 1..Len(sites) : sites[k].domain = key

\* this.loggedInSites.get(key), for a key the Map has
MapGet(sites, key) == sites[CHOOSE k \in 1..Len(sites) : sites[k].domain = key]

\* this.loggedInSites.set(key, {username, cookie}): the entry of an existing key is
\* replaced in place, a new key is added last
MapSet(sites, key, username, cookie) ==
  IF MapHas(sites, key)
  THEN [k \in 1..Len(sites) |->
          IF sites[k].domain = key
          THEN [domain |-> key, username |-> username, cookie |-> cookie]
          ELSE sites[k]]
  ELSE Append(sites, [domain |-> key, username |-> username, cookie |-> cookie])

saveSessionsAppending(file, sites) ==
  file \o [k \in 1..Len(sites) |->
             [domain |-> sites[k].domain, username |-> sites[k].username,
              cookie |-> sites[k].cookie]]

\* The new content of data/sessions.json: writeFileSync replaces the old content
\* (file) by the list built from the Map's entries.
saveSessions(file, sites) ==
  [k \in 1..Len(sites) |->
     [domain |-> sites[k].domain, username |-> sites[k].username,
      cookie |-> sites[k].cookie]]

RECURSIVE LoadInto(_, _)
LoadInto(sites, sessions) ==
  IF sessions = <<>> THEN sites
  ELSE LoadInto(MapSet(sites, Head(sessions).domain, Head(sessions).username,
                       Head(sessions).cookie),
                Tail(sessions))

\* The Map after loadSavedSessions on a fresh bot.
loadSavedSessions(file) == LoadInto(<<>>, file)

-----------------------------------------------------------------------------
(* The login flows.  Each returns what the call did: ret (its return value), *)
(* ev (the page and store operations it performed, in order), the Map and    *)
(* the file after it, the page it left the browser on, and the Map key it    *)
(* wrote (NoKey when it wrote none).  page.fill and page.click on a selector  *)
(* succeed when the selector resolves to a visible element and throw (after   *)
(* the timeout) otherwise; the exception is caught by the flow's try/catch.   *)

Ev(op, arg) == [op |-> op, arg |-> arg]

\* A failed flow that drops the sessions kept so far
FailedClearing(ev, sites, file, page) ==
  [ret |-> FALSE, ev |-> ev, sites |-> <<>>, file |-> <<>>, page |-> page,
   key |-> NoKey]

Failed(ev, sites, file, page) ==
  [ret |-> FALSE, ev |-> ev, sites |-> sites, file |-> file, page |-> page,
   key |-> NoKey]

\* loggedInSites.set(key, {username, cookie}); await saveSessions(); return true
Succeeded(ev, sites, file, page, key, username, cookie) ==
  LET newSites == MapSet(sites, key, username, cookie)
  IN [ret |-> TRUE,
      ev |-> ev \o <<Ev("set", "loggedInSites"), Ev("save", "data/sessions.json")>>,
      sites |-> newSites, file |-> saveSessions(file, newSites), page |-> page,
      key |-> key]

handleLinkedInLogin(ud, sites, file, cur, env) ==
  LET nav == ~cur.atLogin
      pg == IF nav THEN env.loginPage ELSE cur
      ev0 == <<Ev("flow", "linkedin")>>
             \o (IF nav THEN <<Ev("goto", "https://www.linkedin.com/login")>> ELSE <<>>)
      cred == ud.linkedinCredentials
      ev1 == ev0 \o <<Ev("fill", "input#username")>>
      ev2 == ev1 \o <<Ev("fill", "input#password")>>
      ev3 == ev2 \o <<Ev("click", "button[type=\"submit\"]"), Ev("wait", "networkidle")>>
  IN IF cred = NoCred THEN Failed(ev0 \o <<Ev("throw", "TypeError")>>, sites, file, pg)
     ELSE IF ~IsVisible(pg, "input#username")
       THEN Failed(ev0 \o <<Ev("throw", "fill")>>, sites, file, pg)
     ELSE IF ~IsVisible(pg, "input#password")
       THEN Failed(ev1 \o <<Ev("throw", "fill")>>, sites, file, pg)
     ELSE IF ~IsVisible(pg, "button[type=\"submit\"]")
       THEN Failed(ev2 \o <<Ev("throw", "click")>>, sites, file, pg)
     ELSE IF Query(env.afterPage, ".global-nav__me-photo")
       THEN Succeeded(ev3 \o <<Ev("marker", ".global-nav__me-photo")>>, sites, file,
                      env.afterPage, <<"linkedin", ".com">>, cred.username,
                      FindCookie(env.jar, "li_at"))
     ELSE Failed(ev3, sites, file, env.afterPage)

\* The password field is waited for on the page the first submit leads to.
handleIndeedLogin(ud, sites, file, cur, env) ==
  LET nav == ~cur.atLogin
      pg == IF nav THEN env.loginPage ELSE cur
      ev0 == <<Ev("flow", "indeed")>>
             \o (IF nav THEN <<Ev("goto", "https://www.indeed.com/account/login")>>
                 ELSE <<>>)
      cred == ud.indeedCredentials
      ev1 == ev0 \o <<Ev("fill", "input[name=\"email\"]")>>
      ev2 == ev1 \o <<Ev("click", "button[type=\"submit\"]")>>
      ev3 == ev2 \o <<Ev("fill", "input[name=\"password\"]")>>
      ev4 == ev3 \o <<Ev("click", "button[type=\"submit\"]"), Ev("wait", "networkidle")>>
  IN IF cred = NoCred THEN Failed(ev0 \o <<Ev("throw", "TypeError")>>, sites, file, pg)
     ELSE IF ~IsVisible(pg, "input[name=\"email\"]")
       THEN Failed(ev0 \o <<Ev("throw", "fill")>>, sites, file, pg)
     ELSE IF ~IsVisible(pg, "button[type=\"submit\"]")
       THEN Failed(ev1 \o <<Ev("throw", "click")>>, sites, file, pg)
     ELSE IF ~IsVisible(env.pwdPage, "input[name=\"password\"]")
       THEN Failed(ev2 \o <<Ev("throw", "waitForSelector")>>, sites, file, env.pwdPage)
     ELSE IF ~IsVisible(env.pwdPage, "button[type=\"submit\"]")
       THEN Failed(ev3 \o <<Ev("throw", "click")>>, sites, file, env.pwdPage)
     ELSE IF Query(env.afterPage, ".gnav-menu")
       THEN Succeeded(ev4 \o <<Ev("marker", ".gnav-menu")>>, sites, file,
                      env.afterPage, <<"indeed", ".com">>, cred.username,
                      FindCookie(env.jar, "JSESSIONID"))
     ELSE Failed(ev4, sites, file, env.afterPage)

\* handleGlassdoorLogin that keeps the session without looking for the marker
handleGlassdoorLoginNoMarker(ud, sites, file, cur, env) ==
  LET nav == ~cur.atLogin
      pg == IF nav THEN env.loginPage ELSE cur
      ev0 == <<Ev("flow", "glassdoor")>>
             \o (IF nav
                 THEN <<Ev("goto", "https://www.glassdoor.com/profile/login_input.htm")>>
                 ELSE <<>>)
      cred == ud.glassdoorCredentials
      ev1 == ev0 \o <<Ev("fill", "input[name=\"username\"]")>>
      ev2 == ev1 \o <<Ev("fill", "input[name=\"password\"]")>>
      ev3 == ev2 \o <<Ev("click", "button[type=\"submit\"]"), Ev("wait", "networkidle")>>
  IN IF cred = NoCred THEN Failed(ev0 \o <<Ev("throw", "TypeError")>>, sites, file, pg)
     ELSE IF ~IsVisible(pg, "input[name=\"username\"]")
       THEN Failed(ev0 \o <<Ev("throw", "fill")>>, sites, file, pg)
     ELSE IF ~IsVisible(pg, "input[name=\"password\"]")
       THEN Failed(ev1 \o <<Ev("throw", "fill")>>, sites, file, pg)
     ELSE IF ~IsVisible(pg, "button[type=\"submit\"]")
       THEN Failed(ev2 \o <<Ev("throw", "click")>>, sites, file, pg)
     ELSE Succeeded(ev3, sites, file, env.afterPage, <<"glassdoor", ".com">>,
                    cred.username, FindCookie(env.jar, "GSESSIONID"))

handleGlassdoorLogin(ud, sites, file, cur, env) ==
  LET nav == ~cur.atLogin
      pg == IF nav THEN env.loginPage ELSE cur
      ev0 == <<Ev("flow", "glassdoor")>>
             \o (IF nav
                 THEN <<Ev("goto", "https://www.glassdoor.com/profile/login_input.htm")>>
                 ELSE <<>>)
      cred == ud.glassdoorCredentials
      ev1 == ev0 \o <<Ev("fill", "input[name=\"username\"]")>>
      ev2 == ev1 \o <<Ev("fill", "input[name=\"password\"]")>>
      ev3 == ev2 \o <<Ev("click", "button[type=\"submit\"]"), Ev("wait", "networkidle")>>
  IN IF cred = NoCred THEN Failed(ev0 \o <<Ev("throw", "TypeError")>>, sites, file, pg)
     ELSE IF ~IsVisible(pg, "input[name=\"username\"]")
       THEN Failed(ev0 \o <<Ev("throw", "fill")>>, sites, file, pg)
     ELSE IF ~IsVisible(pg, "input[name=\"password\"]")
       THEN Failed(ev1 \o <<Ev("throw", "fill")>>, sites, file, pg)
     ELSE IF ~IsVisible(pg, "button[type=\"submit\"]")
       THEN Failed(ev2 \o <<Ev("throw", "click")>>, sites, file, pg)
     ELSE IF Query(env.afterPage, "[data-test=\"profilePhoto\"]")
       THEN Succeeded(ev3 \o <<Ev("marker", "[data-test=\"profilePhoto\"]")>>, sites,
                      file, env.afterPage, <<"glassdoor", ".com">>, cred.username,
                      FindCookie(env.jar, "GSESSIONID"))
     ELSE Failed(ev3, sites, file, env.afterPage)

\* userData.genericCredentials && userData.genericCredentials[domain]
HasGenericCred(ud, domain) == domain \in DOMAIN ud.genericCredentials

handleGenericLoginPartialFill(ud, sites, file, domain, cur, env) ==
  LET usernameField == FirstVisible(cur, usernameSelectors)
      passwordField == FirstVisible(cur, passwordSelectors)
      submitButton == FirstVisible(cur, submitSelectors)
      ev0 == <<Ev("flow", "generic")>>
      evU == IF usernameField # "null" /\ HasGenericCred(ud, domain)
             THEN <<Ev("fill", usernameField)>> ELSE <<>>
      evP == IF passwordField # "null" /\ HasGenericCred(ud, domain)
             THEN <<Ev("fill", passwordField)>> ELSE <<>>
      ev1 == ev0 \o evU \o evP
      ev2 == ev1 \o <<Ev("click", submitButton), Ev("wait", "networkidle")>>
  IN IF usernameField = "null" \/ passwordField = "null" \/ submitButton = "null"
       THEN Failed(ev1, sites, file, cur)
     ELSE IF ~HasGenericCred(ud, domain) THEN Failed(ev0, sites, file, cur)
     ELSE IF ~checkLoginRequirement(env.afterPage)
       THEN Succeeded(ev2, sites, file, env.afterPage, domain,
                      ud.genericCredentials[domain].username, FirstCookie(env.jar))
     ELSE Failed(ev2, sites, file, env.afterPage)

handleGenericLoginDefaultCred(ud, sites, file, domain, cur, env) ==
  LET usernameField == FirstVisible(cur, usernameSelectors)
      passwordField == FirstVisible(cur, passwordSelectors)
      submitButton == FirstVisible(cur, submitSelectors)
      ev0 == <<Ev("flow", "generic")>>
      ev1 == ev0 \o <<Ev("fill", usernameField), Ev("fill", passwordField),
                      Ev("click", submitButton), Ev("wait", "networkidle")>>
      username == IF HasGenericCred(ud, domain)
                  THEN ud.genericCredentials[domain].username
                  ELSE ud.linkedinCredentials.username
  IN IF usernameField = "null" \/ passwordField = "null" \/ submitButton = "null"
       THEN Failed(ev0, sites, file, cur)
     ELSE IF ~checkLoginRequirement(env.afterPage)
       THEN Succeeded(ev1, sites, file, env.afterPage, domain, username,
                      FirstCookie(env.jar))
     ELSE Failed(ev1, sites, file, env.afterPage)

handleGenericLogin(ud, sites, file, domain, cur, env) ==
  LET usernameField == FirstVisible(cur, usernameSelectors)
      passwordField == FirstVisible(cur, passwordSelectors)
      submitButton == FirstVisible(cur, submitSelectors)
      ev0 == <<Ev("flow", "generic")>>
      ev1 == ev0 \o <<Ev("fill", usernameField), Ev("fill", passwordField),
                      Ev("click", submitButton), Ev("wait", "networkidle")>>
  IN IF usernameField = "null" \/ passwordField = "null" \/ submitButton = "null"
       THEN Failed(ev0, sites, file, cur)
     ELSE IF ~HasGenericCred(ud, domain) THEN Failed(ev0, sites, file, cur)
     ELSE IF ~checkLoginRequirement(env.afterPage)
       THEN Succeeded(ev1, sites, file, env.afterPage, domain,
                      ud.genericCredentials[domain].username, FirstCookie(env.jar))
     ELSE Failed(ev1, sites, file, env.afterPage)

-----------------------------------------------------------------------------
(* handleAuthentication and applyToJob *)

StrategySelectIndeedFirst(domain) ==
  IF Includes(domain, "indeed") THEN "indeed"
  ELSE IF Includes(domain, "linkedin") THEN "linkedin"
  ELSE IF Includes(domain, "glassdoor") THEN "glassdoor"
  ELSE "generic"

\* The if / else if chain over domain.includes(...)
StrategySelect(domain) ==
  IF Includes(domain, "linkedin") THEN "linkedin"
  ELSE IF Includes(domain, "indeed") THEN "indeed"
  ELSE IF Includes(domain, "glassdoor") THEN "glassdoor"
  ELSE "generic"

\* The flows run with a stand-in credential where the profile has none for the site
RunStrategyStandInCred(strategy, ud, sites, file, domain, cur, env) ==
  LET standIn(cred) == IF cred = NoCred THEN Cred("u0") ELSE cred
  IN CASE strategy = "linkedin" ->
            handleLinkedInLogin([ud EXCEPT !.linkedinCredentials = standIn(@)], sites,
                                file, cur, env)
       [] strategy = "indeed" ->
            handleIndeedLogin([ud EXCEPT !.indeedCredentials = standIn(@)], sites,
                              file, cur, env)
       [] strategy = "glassdoor" ->
            handleGlassdoorLogin([ud EXCEPT !.glassdoorCredentials = standIn(@)],
                                 sites, file, cur, env)
       [] OTHER -> handleGenericLogin(ud, sites, file, domain, cur, env)

RunStrategy(strategy, ud, sites, file, domain, cur, env) ==
  CASE strategy = "linkedin" -> handleLinkedInLogin(ud, sites, file, cur, env)
    [] strategy = "indeed" -> handleIndeedLogin(ud, sites, file, cur, env)
    [] strategy = "glassdoor" -> handleGlassdoorLogin(ud, sites, file, cur, env)
    [] OTHER -> handleGenericLogin(ud, sites, file, domain, cur, env)

\* return await this.handleXLogin(): what handleAuthentication did when it ran the
\* login flow (ev0: what it did before, flow: what the flow did)
ReturnFlow(hadSession, ev0, flow) ==
  [ret |-> flow.ret, ev |-> ev0 \o flow.ev,
   sites |-> flow.sites, file |-> flow.file, page |-> flow.page,
   key |-> flow.key, hadSession |-> hadSession, strategy |-> flow.ev[1].arg]

\* hadSession: loggedInSites.has(domain), and then checkIfStillLoggedIn was called;
\* strategy: the login flow that ran ("none" on the early return).
handleAuthentication(ud, sites, file, url, cur, env) ==
  LET domain == Hostname(url)
      hadSession == MapHas(sites, domain)
      ev0 == IF hadSession THEN <<Ev("probe", "checkIfStillLoggedIn")>> ELSE <<>>
  IN IF hadSession /\ checkIfStillLoggedIn(cur)
     THEN [ret |-> TRUE, ev |-> ev0, sites |-> sites, file |-> file, page |-> cur,
           key |-> NoKey, hadSession |-> TRUE, strategy |-> "none"]
     ELSE ReturnFlow(hadSession, ev0,
                     RunStrategy(StrategySelect(domain), ud, sites, file, domain, cur,
                                 env))

\* What applyToJob did when handleAuthentication was not called.
NoAuth(sites, file, cur) ==
  [ret |-> TRUE, ev |-> <<>>, sites |-> sites, file |-> file, page |-> cur,
   key |-> NoKey, hadSession |-> FALSE, strategy |-> "none"]

Result(success, message) == [success |-> success, message |-> message]

\* One record per call: thrown (an exception left applyToJob), result (the returned
\* object), ev (what was done, in order), the Map and the file after the call, and
\* what the call saw: requiresLogin, authCalled, authRet, hadSession, strategy, key.
Outcome(thrown, result, ev, requiresLogin, auth) ==
  [thrown |-> thrown, result |-> result, ev |-> ev,
   sites |-> auth.sites, file |-> auth.file,
   requiresLogin |-> requiresLogin, authCalled |-> requiresLogin,
   authRet |-> auth.ret, hadSession |-> auth.hadSession,
   strategy |-> auth.strategy, key |-> auth.key]

\* this.processMultiPageApplication is no method of the class: the call throws a
\* TypeError, which the try/catch of applyToJob turns into a result.
processMultiPageApplication == "TypeError: this.processMultiPageApplication is not a function"

applyToJobNoAbort(ud, sites, file, url, env) ==
  LET cur == env.jobPage
      ev0 == <<Ev("goto", "job")>>
      requiresLogin == checkLoginRequirement(cur)
      auth == IF requiresLogin THEN handleAuthentication(ud, sites, file, url, cur, env)
              ELSE NoAuth(sites, file, cur)
      ev1 == ev0 \o auth.ev
      applyButton == findApplyButton(auth.page)
      ev2 == ev1 \o <<Ev("findApplyButton", applyButton)>>
  IN IF env.gotoThrows
       THEN Outcome(FALSE, Result(FALSE, "Error: page.goto"), <<Ev("throw", "goto")>>,
                    FALSE, NoAuth(sites, file, cur))
     ELSE IF applyButton = "null"
       THEN Outcome(FALSE, Result(FALSE, "Could not find application button"), ev2,
                    requiresLogin, auth)
     ELSE IF ~IsVisible(auth.page, applyButton)
       THEN Outcome(FALSE, Result(FALSE, "Error: elementHandle.click"),
                    ev2 \o <<Ev("throw", "click")>>, requiresLogin, auth)
     ELSE Outcome(FALSE, Result(FALSE, "Error: " \o processMultiPageApplication),
                  ev2 \o <<Ev("clickApply", applyButton), Ev("wait", "networkidle"),
                           Ev("throw", "TypeError")>>,
                  requiresLogin, auth)

applyToJobNoCatch(ud, sites, file, url, env) ==
  LET cur == env.jobPage
      ev0 == <<Ev("goto", "job")>>
      requiresLogin == checkLoginRequirement(cur)
      auth == IF requiresLogin THEN handleAuthentication(ud, sites, file, url, cur, env)
              ELSE NoAuth(sites, file, cur)
      ev1 == ev0 \o auth.ev
      applyButton == findApplyButton(auth.page)
      ev2 == ev1 \o <<Ev("findApplyButton", applyButton)>>
  IN IF env.gotoThrows
       THEN Outcome(TRUE, Result(FALSE, "Error: page.goto"), <<Ev("throw", "goto")>>,
                    FALSE, NoAuth(sites, file, cur))
     ELSE IF requiresLogin /\ ~auth.ret
       THEN Outcome(FALSE, Result(FALSE, "Authentication failed"), ev1,
                    requiresLogin, auth)
     ELSE IF applyButton = "null"
       THEN Outcome(FALSE, Result(FALSE, "Could not find application button"), ev2,
                    requiresLogin, auth)
     ELSE IF ~IsVisible(auth.page, applyButton)
       THEN Outcome(TRUE, Result(FALSE, "Error: elementHandle.click"),
                    ev2 \o <<Ev("throw", "click")>>, requiresLogin, auth)
     ELSE Outcome(TRUE, Result(FALSE, "Error: " \o processMultiPageApplication),
                  ev2 \o <<Ev("clickApply", applyButton), Ev("wait", "networkidle"),
                           Ev("throw", "TypeError")>>,
                  requiresLogin, auth)

\* applyToJob from the login check on (auth: what the call of handleAuthentication
\* did, NoAuth when the page required no login).  Every exception is caught by
\* applyToJob's try/catch and becomes a result.
ApplyAfterLoginCheck(requiresLogin, auth) ==
  LET ev1 == <<Ev("goto", "job")>> \o auth.ev
      applyButton == findApplyButton(auth.page)
      ev2 == ev1 \o <<Ev("findApplyButton", applyButton)>>
  IN IF requiresLogin /\ ~auth.ret
       THEN Outcome(FALSE, Result(FALSE, "Authentication failed"), ev1,
                    requiresLogin, auth)
     ELSE IF applyButton = "null"
       THEN Outcome(FALSE, Result(FALSE, "Could not find application button"), ev2,
                    requiresLogin, auth)
     ELSE IF ~IsVisible(auth.page, applyButton)
       THEN Outcome(FALSE, Result(FALSE, "Error: elementHandle.click"),
                    ev2 \o <<Ev("throw", "click")>>, requiresLogin, auth)
     ELSE Outcome(FALSE, Result(FALSE, "Error: " \o processMultiPageApplication),
                  ev2 \o <<Ev("clickApply", applyButton), Ev("wait", "networkidle"),
                           Ev("throw", "TypeError")>>,
                  requiresLogin, auth)

\* applyToJob that calls handleAuthentication whatever the login check found
applyToJobAlwaysAuth(ud, sites, file, url, env) ==
  IF env.gotoThrows
  THEN Outcome(FALSE, Result(FALSE, "Error: page.goto"), <<Ev("throw", "goto")>>,
               FALSE, NoAuth(sites, file, env.jobPage))
  ELSE ApplyAfterLoginCheck(TRUE,
         handleAuthentication(ud, sites, file, url, env.jobPage, env))

applyToJob(ud, sites, file, url, env) ==
  LET cur == env.jobPage
      requiresLogin == checkLoginRequirement(cur)
  IN IF env.gotoThrows
       THEN Outcome(FALSE, Result(FALSE, "Error: page.goto"), <<Ev("throw", "goto")>>,
                    FALSE, NoAuth(sites, file, cur))
     ELSE ApplyAfterLoginCheck(requiresLogin,
            IF requiresLogin THEN handleAuthentication(ud, sites, file, url, cur, env)
            ELSE NoAuth(sites, file, cur))

-----------------------------------------------------------------------------
(* The inputs of the bot: pages the sites serve, cookies, profiles, batch files *)

selApply == "button:has-text(\"Apply\")"
selEmail == "input[name=\"email\"]"
selPassword == "input[name=\"password\"]"
selSubmit == "button[type=\"submit\"]"

pPlain == Pg({selApply}, {}, FALSE)
pBare == Pg({}, {}, FALSE)
pHiddenApply == Pg({}, {selApply}, FALSE)
pLoginForm == Pg({selEmail, selPassword, selSubmit}, {}, FALSE)
pSessionOk ==
  Pg({selEmail, selPassword, selSubmit, ".user-avatar", selApply},
     {"a:has-text(\"Sign In\")"}, FALSE)
pSignInWall == Pg({"button:has-text(\"Sign In\")", ".user-avatar"}, {}, FALSE)
pSiteLogin ==
  Pg({"input#username", "input#password", selSubmit, selEmail,
      "input[name=\"username\"]", selPassword}, {}, TRUE)
pHome ==
  Pg({".global-nav__me-photo", ".gnav-menu", "[data-test=\"profilePhoto\"]",
      ".user-avatar", selApply}, {}, FALSE)

JarEmpty == <<>>
JarFull ==
  <<Cookie("trk", "t1"), Cookie("li_at", "a1"), Cookie("JSESSIONID", "j1"),
    Cookie("GSESSIONID", "g1")>>

NoLoginEnv(jobPage) ==
  [gotoThrows |-> FALSE, jobPage |-> jobPage, loginPage |-> pBare, pwdPage |-> pBare,
   afterPage |-> pBare, jar |-> JarEmpty]

GotoThrowsEnv == [NoLoginEnv(pBare) EXCEPT !.gotoThrows = TRUE]

\* loginStages: <<loginPage, pwdPage>>; landings: <<afterPage, jar>>
LoginEnvs(jobPages, loginStages, landings) ==
  {[gotoThrows |-> FALSE, jobPage |-> j, loginPage |-> l[1], pwdPage |-> l[2],
    afterPage |-> a[1], jar |-> a[2]] :
     j \in jobPages, l \in loginStages, a \in landings}

Envs ==
  {GotoThrowsEnv} \cup {NoLoginEnv(j) : j \in {pPlain, pBare, pHiddenApply}}
  \cup LoginEnvs({pLoginForm, pSessionOk, pSignInWall, pSiteLogin},
                 {<<pSiteLogin, pSiteLogin>>, <<pSiteLogin, pBare>>, <<pBare, pBare>>},
                 {<<pHome, JarFull>>, <<pHome, JarEmpty>>, <<pLoginForm, JarFull>>})

BatchEnvs ==
  {GotoThrowsEnv, NoLoginEnv(pPlain), NoLoginEnv(pBare)}
  \cup LoginEnvs({pLoginForm}, {<<pSiteLogin, pSiteLogin>>},
                 {<<pHome, JarFull>>, <<pLoginForm, JarFull>>})

udAll ==
  [linkedinCredentials |-> Cred("u1"), indeedCredentials |-> Cred("u1"),
   glassdoorCredentials |-> Cred("u1"), genericCredentials |-> (hAcme :> Cred("u1"))]
udAlt ==
  [linkedinCredentials |-> Cred("u2"), indeedCredentials |-> NoCred,
   glassdoorCredentials |-> NoCred, genericCredentials |-> (hAcme :> Cred("u2"))]
udNone ==
  [linkedinCredentials |-> NoCred, indeedCredentials |-> NoCred,
   glassdoorCredentials |-> NoCred, genericCredentials |-> <<>>]

UserDatas == {udAll, udAlt, udNone}

\* A line of the batch file: a URL, the empty line, or a line of blanks.
EmptyLine == [scheme |-> "", host |-> <<>>, path |-> ""]
BlankLine == [scheme |-> " ", host |-> <<>>, path |-> ""]

\* line.trim()
Trim(line) == IF line = BlankLine THEN EmptyLine ELSE line

\* fileContent.split('\n').map(line => line.trim()).filter(line => line.length > 0)
RECURSIVE ParseUrls(_)
ParseUrls(lines) ==
  IF lines = <<>> THEN <<>>
  ELSE IF Trim(Head(lines)) # EmptyLine
    THEN <<Trim(Head(lines))>> \o ParseUrls(Tail(lines))
  ELSE ParseUrls(Tail(lines))

\* Batch files of the authentication runs: a URL once, or the same URL twice.
AuthFiles ==
  {<<JobUrl(h)>> : h \in {hIndeed, hGlassdoor, hMulti}}
  \cup {<<JobUrl(h), JobUrl(h)>> : h \in {hLinkedIn, hWwwLinkedIn, hAcme}}

\* Batch files of the batch runs: every file of at most MaxLines lines.
BatchFiles == SeqsUpTo({JobUrl(hAcme), JobUrl(hWwwLinkedIn), BlankLine}, MaxLines)

-----------------------------------------------------------------------------
(* The commands of index.js that drive the bot *)

NoCall == [called |-> FALSE]

FnIdle == [kind |-> "none"]

ParserIdle == [kind |-> "none"]

\* What the last applyToJob call did (an Outcome), with its arguments.
ApplyObs(o, url, env, priorOk, sitesBefore) ==
  [called |-> TRUE, url |-> url, priorOk |-> priorOk, jobPage |-> env.jobPage,
   prior |-> IF o.key # NoKey /\ MapHas(sitesBefore, o.key)
             THEN MapGet(sitesBefore, o.key) ELSE NoSession,
   jar |-> IF o.key # NoKey THEN env.jar ELSE JarEmpty,
   thrown |-> o.thrown, result |-> o.result, ev |-> o.ev,
   requiresLogin |-> o.requiresLogin, authCalled |-> o.authCalled,
   authRet |-> o.authRet, hadSession |-> o.hadSession, strategy |-> o.strategy,
   key |-> o.key]

\* data/user_data.json does not exist
NoFile == [kind |-> "none"]

\* No updateUserData command is running
NotEditing == [kind |-> "none"]

InitNoProfile ==
  /\ userDataFile = NoFile
  /\ editing = NotEditing
  /\ commands = 0

\* No page is open and no message was received
NoMessage == [action |-> "none"]

InitNoContent ==
  /\ document = <<>>
  /\ request = NoMessage
  /\ response = NoMessage

InitBot ==
  /\ userData = udNone
  /\ loggedInSites = <<>>
  /\ sessionsFile = <<>>
  /\ pc = "idle"
  /\ fileLines = <<>>
  /\ urls = <<>>
  /\ idx = 0
  /\ results = <<>>
  /\ calls = <<>>
  /\ loginOk = {}
  /\ runs = 0
  /\ last = NoCall

\* batchApply up to its loop: the file is read, the profile loaded, the bot
\* constructed and initialised (which loads the saved sessions).
StartRun(uds, files) ==
  /\ pc \in {"idle", "done", "aborted"}
  /\ runs < MaxRuns
  /\ \E ud \in uds, content \in files :
       /\ userData' = ud
       /\ fileLines' = content
       /\ urls' = ParseUrls(content)
  /\ loggedInSites' = loadSavedSessions(sessionsFile)
  /\ pc' = "loop"
  /\ idx' = 0
  /\ results' = <<>>
  /\ calls' = <<>>
  /\ loginOk' = {}
  /\ runs' = runs + 1
  /\ last' = NoCall
  /\ UNCHANGED <<sessionsFile, fnIn, fnOut, parser, profileVars, contentVars>>

\* One iteration of the loop: applyToJob(urls[i]) and results.push.  An exception
\* leaving applyToJob would reach batchApply's catch, which ends the process.
BatchStep(envs) ==
  /\ pc = "loop"
  /\ idx < Len(urls)
  /\ \E env \in envs :
       \* o: what the call bot.applyToJob(url) did
       \E o \in {applyToJob(userData, loggedInSites, sessionsFile, urls[idx + 1], env)} :
       LET url == urls[idx + 1]
       IN /\ calls' = Append(calls, url)
          /\ last' = ApplyObs(o, url, env, url \in loginOk, loggedInSites)
          /\ loggedInSites' = o.sites
          /\ sessionsFile' = o.file
          /\ loginOk' = IF o.key # NoKey THEN loginOk \cup {url} ELSE loginOk
          /\ IF o.thrown
             THEN /\ pc' = "aborted"
                  /\ UNCHANGED <<results, idx>>
             ELSE /\ results' = Append(results, [url |-> url,
                                                 success |-> o.result.success,
                                                 message |-> o.result.message])
                  /\ idx' = idx + 1
                  /\ pc' = "loop"
  /\ UNCHANGED <<userData, fileLines, urls, runs, fnIn, fnOut, parser, profileVars, contentVars>>

\* The loop is over: the browser is closed, the summary written, the process exits.
BatchFinish ==
  /\ pc = "loop"
  /\ idx = Len(urls)
  /\ pc' = "done"
  /\ UNCHANGED <<userData, loggedInSites, sessionsFile, fileLines, urls, idx, results,
                 calls, loginOk, runs, last, fnIn, fnOut, parser, profileVars, contentVars>>

Init ==
  /\ InitBot
  /\ InitNoProfile
  /\ InitNoContent
  /\ fnIn = FnIdle
  /\ fnOut = FnIdle
  /\ parser = ParserIdle

Next ==
  \/ StartRun(UserDatas, AuthFiles)
  \/ BatchStep(Envs)
  \/ BatchFinish

Spec == Init /\ [][Next]_vars

NextBatch ==
  \/ StartRun({udAll}, BatchFiles)
  \/ BatchStep(BatchEnvs)
  \/ BatchFinish

SpecBatch == Init /\ [][NextBatch]_vars

-----------------------------------------------------------------------------
(* checkIfStillLoggedIn and handleGenericLogin on every page of a bounded size *)

\* The inputs are the pages on which at most MaxIndicators (MaxFormElems) of the
\* selectors resolve to an element, each such element visible or hidden.
ProbeSelectors == Range(loginIndicators) \cup Range(loggedInIndicators)

FormSelectors ==
  Range(usernameSelectors) \cup Range(passwordSelectors) \cup Range(submitSelectors)

InitProbe ==
  /\ InitBot
  /\ InitNoProfile
  /\ InitNoContent
  /\ parser = ParserIdle
  /\ \E present \in SubsetsUpTo(ProbeSelectors, MaxIndicators) :
       \E v \in SUBSET present :
         fnIn = [kind |-> "probe", page |-> Pg(v, present \ v, FALSE)]
  /\ fnOut = FnIdle

RunProbe ==
  /\ fnIn.kind = "probe"
  /\ fnOut = FnIdle
  /\ fnOut' = [kind |-> "probe", ret |-> checkIfStillLoggedIn(fnIn.page)]
  /\ UNCHANGED <<userData, loggedInSites, sessionsFile, pc, fileLines, urls, idx,
                 results, calls, loginOk, runs, last, fnIn, parser, profileVars, contentVars>>

SpecProbe == InitProbe /\ [][RunProbe]_vars

InitGeneric ==
  /\ InitBot
  /\ InitNoProfile
  /\ InitNoContent
  /\ parser = ParserIdle
  /\ \E present \in SubsetsUpTo(FormSelectors, MaxFormElems) :
       \E v \in SUBSET present, ud \in {udAll, udNone}, a \in {pHome, pLoginForm} :
         fnIn = [kind |-> "generic", page |-> Pg(v, present \ v, FALSE),
                 ud |-> ud, afterPage |-> a]
  /\ fnOut = FnIdle

RunGeneric ==
  /\ fnIn.kind = "generic"
  /\ fnOut = FnIdle
  /\ fnOut' = [kind |-> "generic",
               flow |-> handleGenericLogin(fnIn.ud, <<>>, <<>>, hAcme, fnIn.page,
                          [NoLoginEnv(fnIn.page) EXCEPT !.afterPage = fnIn.afterPage,
                                                        !.jar = JarFull])]
  /\ UNCHANGED <<userData, loggedInSites, sessionsFile, pc, fileLines, urls, idx,
                 results, calls, loginOk, runs, last, fnIn, parser, profileVars, contentVars>>

SpecGeneric == InitGeneric /\ [][RunGeneric]_vars

-----------------------------------------------------------------------------
(* ResumeParser (resumeParser.js).  A text is the sequence of its lines.  A      *)
(* string taken from a text is the sequence of the line pieces it spans (the    *)
(* string split at its line feeds); null is the empty sequence.  The pattern    *)
(* tables say what each regular expression of the code matches on the lines the *)
(* resumes of the model are written with (ResumeLines).                         *)

Null == <<>>

EmptyString == <<"">>

\* !value
Falsy(value) == value = Null \/ value = EmptyString

HeaderBlock ==
  <<"Jane Doe", "jane@example.com", "555-123-4567", "Location: Austin, TX",
    "DOB: 01/02/1990">>
EducationBlock == <<"EDUCATION", "Acme University", "Bachelor of Science", "2014 - 2018">>
EducationNoDegreeBlock == <<"EDUCATION", "Acme University 2018">>
ExperienceBlock == <<"EXPERIENCE", "Initech", "Engineer", "2019 - 2021, Austin">>
SectionsBlock ==
  <<"SKILLS", "Go, Rust", "LANGUAGES", "English fluent", "CERTIFICATIONS",
    "Cloud Certificate 2020">>
KeywordsBlock == <<"US citizen", "github.com/jane">>
LanguagesBlock == <<"LANGUAGES", "English fluent">>
CertificationsBlock == <<"CERTIFICATIONS", "Cloud Certificate 2020">>
EducationNoYearBlock == <<"EDUCATION", "Acme University">>
ExperienceNoDatesBlock == <<"EXPERIENCE", "Initech", "Engineer">>
ExperienceNoTitleBlock == <<"EXPERIENCE: Initech, 2019 - 2021">>
CertificationNoDateBlock == <<"CERTIFICATIONS", "Cloud Certificate">>
MentionBlock == <<"Speaks English">>
MentionWithLevelBlock == <<"English fluent">>

ResumeLines ==
  Range(HeaderBlock) \cup Range(EducationBlock) \cup Range(EducationNoDegreeBlock)
  \cup Range(ExperienceBlock) \cup Range(SectionsBlock) \cup Range(KeywordsBlock)
  \cup Range(ExperienceNoTitleBlock) \cup Range(CertificationNoDateBlock)
  \cup Range(MentionBlock)

\* A pattern is applied to a text line by line: hits[k] is its match on line k, ""
\* where it has none.

\* The index of the first line, from index from on, with a match; 0 when there is
\* none
FirstLine(hits, from) ==
  LET found == {k \in from..Len(hits) : hits[k] # ""}
  IN IF found = {} THEN 0 ELSE CHOOSE k \in found : \A j \in found : k <= j

\* text.match(regex) for a one-line pattern: the first match, null without one
MatchIn(hits) ==
  IF FirstLine(hits, 1) = 0 THEN Null ELSE <<hits[FirstLine(hits, 1)]>>

\* string.trim(): the line feeds at both ends go
RECURSIVE TrimStr(_)
TrimStr(str) ==
  IF str = <<>> THEN EmptyString
  ELSE IF Head(str) = "" /\ Len(str) > 1 THEN TrimStr(Tail(str))
  ELSE IF str[Len(str)] = "" /\ Len(str) > 1 THEN TrimStr(SubSeq(str, 1, Len(str) - 1))
  ELSE str

\* The leading run of letters and white space of a line: [A-Za-z\s]+ from its start
LettersRun(line) ==
  CASE line = "jane@example.com" -> "jane"
    [] line = "555-123-4567" -> ""
    [] line = "Location: Austin, TX" -> "Location"
    [] line = "DOB: 01/02/1990" -> "DOB"
    [] line = "2014 - 2018" -> ""
    [] line = "Acme University 2018" -> "Acme University "
    [] line = "2019 - 2021, Austin" -> ""
    [] line = "EXPERIENCE: Initech, 2019 - 2021" -> "EXPERIENCE"
    [] line = "Go, Rust" -> "Go"
    [] line = "Cloud Certificate 2020" -> "Cloud Certificate "
    [] line = "github.com/jane" -> "github"
    [] OTHER -> line

AllLetters(line) == LettersRun(line) = line

\* The first index of the run of lines of letters that ends just before line k, not
\* before index from
RECURSIVE RunStart(_, _, _)
RunStart(text, from, k) ==
  IF k > from /\ AllLetters(text[k - 1]) THEN RunStart(text, from, k - 1) ELSE k

\* /^([A-Z][a-z]+ [A-Z][a-z]+)/m
nameRegex(line) ==
  CASE line = "Jane Doe" -> "Jane Doe"
    [] line = "Acme University" -> "Acme University"
    [] line = "Acme University 2018" -> "Acme University"
    [] line = "Cloud Certificate 2020" -> "Cloud Certificate"
    [] line = "Cloud Certificate" -> "Cloud Certificate"
    [] line = "Speaks English" -> "Speaks English"
    [] OTHER -> ""

\* /\b[A-Za-z0-9._%+-]+@[A-Za-z0-9.-]+\.[A-Z|a-z]{2,}\b/
emailRegex(line) == IF line = "jane@example.com" THEN "jane@example.com" ELSE ""

\* /\b(\+\d{1,3}[-\s]?)?\(?\d{3}\)?[-.\s]?\d{3}[-.\s]?\d{4}\b/
phoneRegex(line) == IF line = "555-123-4567" THEN "555-123-4567" ELSE ""

\* /(?:Address|Location):\s*([^,\n]+,\s*[A-Za-z\s]+(?:,\s*[A-Z]{2})?)|\b([A-Za-z\s]+, [A-Z]{2})\b/i:
\* what group 1 takes on the line of the label (group 2 matches on no line)
locationRegex(line) == IF line = "Location: Austin, TX" THEN "Austin, TX" ELSE ""

\* [A-Za-z\s]+ of group 1 goes on over the line feed: through the lines of letters
\* and into the leading letters of the first other line, where (?:,\s*[A-Z]{2})? adds
\* a comma and two letters when they follow
RECURSIVE LocationSpill(_)
LocationSpill(rest) ==
  IF rest = <<>> THEN <<>>
  ELSE IF AllLetters(Head(rest)) THEN <<Head(rest)>> \o LocationSpill(Tail(rest))
  ELSE IF Head(rest) = "Go, Rust" THEN <<"Go, Ru">>
  ELSE <<LettersRun(Head(rest))>>

\* /(?:Date of Birth|DOB|Born):\s*(\d{1,2}[-/]\d{1,2}[-/]\d{2,4})/i
dobRegex(line) == IF line = "DOB: 01/02/1990" THEN "01/02/1990" ELSE ""

\* A field is assigned only when its pattern matches.
extractPersonalInfo(profile, text) ==
  LET nameMatch == MatchIn([ln \in 1..Len(text) |-> nameRegex(text[ln])])
      emailMatch == MatchIn([ln \in 1..Len(text) |-> emailRegex(text[ln])])
      phoneMatch == MatchIn([ln \in 1..Len(text) |-> phoneRegex(text[ln])])
      loc == FirstLine([ln \in 1..Len(text) |-> locationRegex(text[ln])], 1)
      dobMatch == MatchIn([ln \in 1..Len(text) |-> dobRegex(text[ln])])
  IN [profile EXCEPT
        !.personalInfo.fullName = IF nameMatch # Null THEN nameMatch ELSE @,
        !.personalInfo.email = IF emailMatch # Null THEN emailMatch ELSE @,
        !.personalInfo.phone = IF phoneMatch # Null THEN phoneMatch ELSE @,
        !.personalInfo.location =
           IF loc # 0
           THEN <<locationRegex(text[loc])>>
                  \o LocationSpill(SubSeq(text, loc + 1, Len(text)))
           ELSE @,
        !.personalInfo.dateOfBirth = IF dobMatch # Null THEN dobMatch ELSE @]

\* The section keywords a line contains (the section patterns are case-insensitive
\* and unanchored)
SectionWords(line) ==
  CASE line = "EDUCATION" -> {"EDUCATION"}
    [] line = "EXPERIENCE" -> {"EXPERIENCE"}
    [] line = "EXPERIENCE: Initech, 2019 - 2021" -> {"EXPERIENCE"}
    [] line = "SKILLS" -> {"SKILLS"}
    [] line = "LANGUAGES" -> {"LANGUAGES"}
    [] line = "CERTIFICATIONS" -> {"CERTIFICATIONS"}
    [] OTHER -> {}

\* A line up to and with its first section keyword
UpToSectionWord(line) ==
  IF line = "EXPERIENCE: Initech, 2019 - 2021" THEN "EXPERIENCE" ELSE line

\* text.match(/(?:starts)(?:[\s\S]*?)(?:ends|$)/i)[0]: from the first line with a
\* start keyword through the next line with an end keyword (that keyword is part of
\* the match), or through the last line; Null when no start keyword is found
SectionMatch(text, starts, ends) ==
  LET first == {k \in 1..Len(text) : SectionWords(text[k]) \cap starts # {}}
      i == CHOOSE k \in first : \A j \in first : k <= j
      closing == {k \in (i + 1)..Len(text) : SectionWords(text[k]) \cap ends # {}}
      j == IF closing = {} THEN Len(text)
           ELSE CHOOSE k \in closing : \A m \in closing : k <= m
  IN IF first = {} THEN Null
     ELSE IF closing = {} THEN SubSeq(text, i, j)
     ELSE SubSeq(text, i, j - 1) \o <<UpToSectionWord(text[j])>>

\* The keywords that end each section pattern
educationEnds == {"EXPERIENCE", "EMPLOYMENT", "WORK", "SKILLS"}

experienceEnds == {"EDUCATION", "SKILLS", "AWARDS", "LANGUAGES"}

skillsEnds == {"LANGUAGES", "EXPERIENCE", "EDUCATION", "CERTIFICATIONS"}

languageEnds == {"SKILLS", "EXPERIENCE", "EDUCATION", "CERTIFICATIONS"}

certEnds == {"EDUCATION", "EXPERIENCE", "SKILLS", "LANGUAGES"}

\* text.match(educationSectionRegex)[0], and the same for the other four sections
educationSection(text) ==
  SectionMatch(text, {"EDUCATION", "ACADEMIC BACKGROUND", "QUALIFICATIONS"}, educationEnds)

experienceSection(text) ==
  SectionMatch(text, {"EXPERIENCE", "EMPLOYMENT", "WORK HISTORY", "PROFESSIONAL BACKGROUND"},
               experienceEnds)

skillsSection(text) ==
  SectionMatch(text, {"SKILLS", "TECHNICAL SKILLS", "CORE COMPETENCIES"}, skillsEnds)

languageSection(text) ==
  SectionMatch(text, {"LANGUAGES", "LANGUAGE PROFICIENCY"}, languageEnds)

certSection(text) ==
  SectionMatch(text, {"CERTIFICATIONS", "CERTIFICATES", "LICENSES"}, certEnds)

\* /([A-Za-z\s]+University|College|Institute|School)/i
universityRegex(line) ==
  CASE line = "Acme University" -> "Acme University"
    [] line = "Acme University 2018" -> "Acme University"
    [] OTHER -> ""

\* A line up to and with its first \d{4}
UpToYear(line) ==
  CASE line = "DOB: 01/02/1990" -> "DOB: 01/02/1990"
    [] line = "2014 - 2018" -> "2014"
    [] line = "Acme University 2018" -> "Acme University 2018"
    [] line = "2019 - 2021, Austin" -> "2019"
    [] line = "EXPERIENCE: Initech, 2019 - 2021" -> "EXPERIENCE: Initech, 2019"
    [] line = "Cloud Certificate 2020" -> "Cloud Certificate 2020"
    [] OTHER -> ""

\* /(?:Bachelor|Master|Ph\.D|MBA|B\.S\.|M\.S\.|B\.A\.|M\.A\.|B\.Eng|M\.Eng|B\.Tech|M\.Tech)[^\n\r]*/i
degreeRegex(line) == IF line = "Bachelor of Science" THEN "Bachelor of Science" ELSE ""

\* /(?:\d{4}\s*-\s*\d{4}|\d{4}\s*-\s*Present|\d{4})/i
dateRegex(line) ==
  CASE line = "DOB: 01/02/1990" -> "1990"
    [] line = "2014 - 2018" -> "2014 - 2018"
    [] line = "Acme University 2018" -> "2018"
    [] line = "2019 - 2021, Austin" -> "2019 - 2021"
    [] line = "EXPERIENCE: Initech, 2019 - 2021" -> "2019 - 2021"
    [] line = "Cloud Certificate 2020" -> "2020"
    [] OTHER -> ""

\* /GPA:?\s*([0-9](?:\.[0-9]+)?)\s*\/?\s*([0-9](?:\.[0-9]+)?)?/i
gpaRegex(line) == ""

\* The while loop over universityRegex.exec(eduText), from line index from on: a
\* match runs from the start of the run of letters that holds the institution name
\* to the next \d{4}.  The context substring (100 characters before the match, 300
\* after) covers the whole section for the sections of the model.
RECURSIVE EducationMatches(_, _)
EducationMatches(eduText, from) ==
  LET u == FirstLine([ln \in 1..Len(eduText) |-> universityRegex(eduText[ln])], from)
      y == IF u = 0 THEN 0
           ELSE FirstLine([ln \in 1..Len(eduText) |-> UpToYear(eduText[ln])], u)
      contextLines == eduText
      degreeMatch == MatchIn([ln \in 1..Len(contextLines) |-> degreeRegex(contextLines[ln])])
      dateMatch == MatchIn([ln \in 1..Len(contextLines) |-> dateRegex(contextLines[ln])])
      gpaMatch == MatchIn([ln \in 1..Len(contextLines) |-> gpaRegex(contextLines[ln])])
  IN IF u = 0 \/ y = 0 THEN <<>>
     ELSE <<[institution |->
               TrimStr(SubSeq(eduText, RunStart(eduText, from, u), y - 1)
                         \o <<UpToYear(eduText[y])>>),
             degree |-> degreeMatch, dates |-> dateMatch, gpa |-> gpaMatch]>>
          \o EducationMatches(eduText, y + 1)

\* this.userData.education.push(...) for every match
extractEducation(profile, text) ==
  LET eduText == educationSection(text)
  IN IF eduText = Null THEN profile
     ELSE [profile EXCEPT !.education = @ \o EducationMatches(eduText, 1)]

\* /\d{4}\s*-\s*(?:\d{4}|Present)/i, the end of companyRegex
dateRangeRegex(line) ==
  CASE line = "2014 - 2018" -> "2014 - 2018"
    [] line = "2019 - 2021, Austin" -> "2019 - 2021"
    [] line = "EXPERIENCE: Initech, 2019 - 2021" -> "2019 - 2021"
    [] OTHER -> ""

\* A line up to and with its first date range
UpToDateRange(line) ==
  IF line = "EXPERIENCE: Initech, 2019 - 2021" THEN line ELSE dateRangeRegex(line)

\* What a line holds after its date range
AfterDateRange(line) == IF line = "2019 - 2021, Austin" THEN ", Austin" ELSE ""

\* The number of characters of a line from the start of its first date on
CharsFromDate(line) ==
  CASE line = "DOB: 01/02/1990" -> 4
    [] line = "2014 - 2018" -> 11
    [] line = "Acme University 2018" -> 4
    [] line = "2019 - 2021, Austin" -> 19
    [] line = "EXPERIENCE: Initech, 2019 - 2021" -> 11
    [] line = "Cloud Certificate 2020" -> 4
    [] OTHER -> 0

\* /(?:[\n\r]|^)([A-Za-z\s]+)(?:[\n\r]|$)/i, group 1: the first run of whole lines
\* of letters
titleRegex(contextLines) ==
  LET whole == {k \in 1..Len(contextLines) : AllLetters(contextLines[k])}
      i == CHOOSE k \in whole : \A j \in whole : k <= j
      j == CHOOSE k \in i..Len(contextLines) :
             /\ \A m \in i..k : m \in whole
             /\ (k + 1) \notin whole
  IN IF whole = {} THEN Null ELSE SubSeq(contextLines, i, j)

\* The characters skipped from the start of the date to the start of the description
DescriptionOffset == 20

\* contextLines.substring(descStart + 20).trim(), descStart being the index of the
\* date on line d: the empty string when the context ends within these 20
\* characters, the lines after line d when the 20 characters end with the line feed
\* of line d
descriptionOf(contextLines, d) ==
  CASE d = Len(contextLines) /\ CharsFromDate(contextLines[d]) <= DescriptionOffset ->
         EmptyString
    [] d < Len(contextLines) /\ CharsFromDate(contextLines[d]) + 1 = DescriptionOffset ->
         TrimStr(SubSeq(contextLines, d + 1, Len(contextLines)))

\* The while loop over companyRegex.exec(expText), from line index from on (lead:
\* what the line before holds after its date range): a match runs to the next date
\* range.  The context substring (50 characters before the match, 400 after) covers
\* the whole section for the sections of the model.
RECURSIVE ExperienceMatches(_, _, _)
ExperienceMatches(expText, from, lead) ==
  LET r == FirstLine([ln \in 1..Len(expText) |-> dateRangeRegex(expText[ln])], from)
      contextLines == expText
      dateHits == [ln \in 1..Len(contextLines) |-> dateRegex(contextLines[ln])]
  IN IF r = 0 THEN <<>>
     ELSE <<[company |-> TrimStr(lead \o SubSeq(expText, from, r - 1)
                                   \o <<UpToDateRange(expText[r])>>),
             title |-> IF titleRegex(contextLines) = Null THEN Null
                       ELSE TrimStr(titleRegex(contextLines)),
             dates |-> MatchIn(dateHits),
             description |-> descriptionOf(contextLines, FirstLine(dateHits, 1))]>>
          \o ExperienceMatches(expText, r + 1, <<AfterDateRange(expText[r])>>)

\* this.userData.experience.push(...) for every match
extractExperience(profile, text) ==
  LET expText == experienceSection(text)
  IN IF expText = Null THEN profile
     ELSE [profile EXCEPT !.experience = @ \o ExperienceMatches(expText, 1, <<>>)]

\* line.split(/[,•·]/), each part without the blanks around it
SplitLine(line) ==
  CASE line = "Location: Austin, TX" -> <<"Location: Austin", "TX">>
    [] line = "2019 - 2021, Austin" -> <<"2019 - 2021", "Austin">>
    [] line = "EXPERIENCE: Initech, 2019 - 2021" -> <<"EXPERIENCE: Initech", "2019 - 2021">>
    [] line = "Go, Rust" -> <<"Go", "Rust">>
    [] OTHER -> <<line>>

\* skillsText.split(/[,•·]/): a part goes on over the line feeds (cur: the part begun
\* on the lines before)
RECURSIVE SplitText(_, _)
SplitText(lines, cur) ==
  IF lines = <<>> THEN <<cur>>
  ELSE LET parts == SplitLine(Head(lines))
       IN IF Len(parts) = 1 THEN SplitText(Tail(lines), cur \o parts)
          ELSE <<cur \o <<parts[1]>>>>
                 \o [k \in 1..(Len(parts) - 2) |-> <<parts[k + 1]>>]
                 \o SplitText(Tail(lines), <<parts[Len(parts)]>>)

\* [...new Set(list)]: the first occurrence of every element, in order
RECURSIVE Distinct(_)
Distinct(list) ==
  IF list = <<>> THEN <<>>
  ELSE LET front == Distinct(SubSeq(list, 1, Len(list) - 1))
           x == list[Len(list)]
       IN IF x \in Range(front) THEN front ELSE Append(front, x)

\* /^(?:LANGUAGES|EXPERIENCE|EDUCATION|CERTIFICATIONS)$/i.test(skill)
IsSectionName(skill) ==
  skill \in {<<"LANGUAGES">>, <<"EXPERIENCE">>, <<"EDUCATION">>, <<"CERTIFICATIONS">>}

extractSkillsClearing(profile, text) ==
  LET skillsText == skillsSection(text)
      trimmed == [k \in 1..Len(SplitText(skillsText, <<>>)) |->
                    TrimStr(SplitText(skillsText, <<>>)[k])]
      keep(skill) == skill # EmptyString /\ ~IsSectionName(skill)
      skillsList == FilterSeq(trimmed, {skill \in Range(trimmed) : keep(skill)})
  IN IF skillsText = Null THEN [profile EXCEPT !.skills = <<>>]
     ELSE [profile EXCEPT !.skills = Distinct(skillsList)]

\* this.userData.skills is assigned, not appended to
extractSkills(profile, text) ==
  LET skillsText == skillsSection(text)
      trimmed == [k \in 1..Len(SplitText(skillsText, <<>>)) |->
                    TrimStr(SplitText(skillsText, <<>>)[k])]
      keep(skill) == skill # EmptyString /\ ~IsSectionName(skill)
      skillsList == FilterSeq(trimmed, {skill \in Range(trimmed) : keep(skill)})
  IN IF skillsText = Null THEN profile
     ELSE [profile EXCEPT !.skills = Distinct(skillsList)]

commonLanguages ==
  <<"English", "Spanish", "French", "German", "Italian", "Chinese", "Japanese",
    "Russian", "Arabic", "Portuguese", "Hindi", "Bengali", "Urdu", "Dutch", "Turkish">>

\* The line holds the language name
MentionsLanguage(line, language) ==
  line \in {"English fluent", "Speaks English"} /\ language = "English"

\* What follows the language name on the line up to and with the first of fluent,
\* native, professional, beginner, intermediate, advanced, proficient, basic; "" when
\* none follows on the line (no other line of the model holds one)
LevelAfter(line, language) ==
  IF line = "English fluent" /\ language = "English" THEN "fluent" ELSE ""

\* One iteration of commonLanguages.forEach when the text has a languages section
SectionLanguage(langText, language) ==
  LET at == {k \in 1..Len(langText) : MentionsLanguage(langText[k], language)}
      k == CHOOSE i \in at : \A j \in at : i <= j
  IN IF at = {} THEN <<>>
     ELSE IF LevelAfter(langText[k], language) # ""
       THEN <<[language |-> <<language>>,
               proficiency |-> <<LevelAfter(langText[k], language)>>]>>
     ELSE <<[language |-> <<language>>, proficiency |-> <<"Not specified">>]>>

\* The iteration without the check for a level near the mention
MentionedLanguageAnyLevel(text, language) == SectionLanguage(text, language)

\* One iteration when it has none: an entry only with a level within 30 characters
\* after the language name
MentionedLanguage(text, language) ==
  LET at == {k \in 1..Len(text) : MentionsLanguage(text[k], language)
                                    /\ LevelAfter(text[k], language) # ""}
      k == CHOOSE i \in at : \A j \in at : i <= j
  IN IF at = {} THEN <<>>
     ELSE <<[language |-> <<language>>,
             proficiency |-> <<LevelAfter(text[k], language)>>]>>

RECURSIVE LanguagesFrom(_, _, _)
LanguagesFrom(text, hasSection, n) ==
  IF n > Len(commonLanguages) THEN <<>>
  ELSE (IF hasSection THEN SectionLanguage(text, commonLanguages[n])
        ELSE MentionedLanguage(text, commonLanguages[n]))
       \o LanguagesFrom(text, hasSection, n + 1)

\* this.userData.languages.push(...) for every language found
extractLanguages(profile, text) ==
  LET langText == languageSection(text)
  IN [profile EXCEPT !.languages =
        @ \o (IF langText # Null THEN LanguagesFrom(langText, TRUE, 1)
              ELSE LanguagesFrom(text, FALSE, 1))]

\* /([A-Za-z\s]+(?:Certification|Certificate|License))/i on one line: the line up to
\* and with the keyword, which letters must precede
certRegex(line) ==
  IF line \in {"Cloud Certificate 2020", "Cloud Certificate"} THEN "Cloud Certificate"
  ELSE ""

\* /(?:issued by|from|through)\s+([A-Za-z\s]+)/i
issuerRegex(line) == ""

\* The while loop over certRegex.exec(certText), from line index from on: group 1
\* runs from the start of the run of letters to the keyword.  The context substring
\* (50 characters before the match, 200 after) covers the whole section for the
\* sections of the model.
RECURSIVE CertificationMatches(_, _)
CertificationMatches(certText, from) ==
  LET c == FirstLine([ln \in 1..Len(certText) |-> certRegex(certText[ln])], from)
      contextLines == certText
      dateMatch == MatchIn([ln \in 1..Len(contextLines) |-> dateRegex(contextLines[ln])])
      issuerMatch == MatchIn([ln \in 1..Len(contextLines) |-> issuerRegex(contextLines[ln])])
  IN IF c = 0 THEN <<>>
     ELSE <<[name |-> TrimStr(SubSeq(certText, RunStart(certText, from, c), c - 1)
                                \o <<certRegex(certText[c])>>),
             date |-> dateMatch, issuer |-> issuerMatch]>>
          \o CertificationMatches(certText, c + 1)

\* this.userData.certifications.push(...) for every match
extractCertifications(profile, text) ==
  LET certText == certSection(text)
  IN IF certText = Null THEN profile
     ELSE [profile EXCEPT !.certifications = @ \o CertificationMatches(certText, 1)]

extractInformation(profile, text) ==
  extractCertifications(
    extractLanguages(
      extractSkills(
        extractExperience(
          extractEducation(
            extractPersonalInfo(profile, text), text), text), text), text), text)

\* Every string of JSON.stringify(this.userData), as its pieces
RECURSIVE Flatten(_)
Flatten(strs) == IF strs = <<>> THEN <<>> ELSE Head(strs) \o Flatten(Tail(strs))

StringsOf(profile) ==
  LET p == profile.personalInfo
      edu(e) == e.institution \o e.degree \o e.dates \o e.gpa
      exp(e) == e.company \o e.title \o e.dates \o e.description
      lang(e) == e.language \o e.proficiency
      cert(e) == e.name \o e.date \o e.issuer
  IN p.fullName \o p.email \o p.phone \o p.location \o p.dateOfBirth
     \o Flatten([k \in 1..Len(profile.education) |-> edu(profile.education[k])])
     \o Flatten([k \in 1..Len(profile.experience) |-> exp(profile.experience[k])])
     \o Flatten(profile.skills)
     \o Flatten([k \in 1..Len(profile.languages) |-> lang(profile.languages[k])])
     \o Flatten([k \in 1..Len(profile.certifications) |->
                   cert(profile.certifications[k])])

\* /(?:citizen|permanent resident|work authorization|visa)/i on a piece (no key of
\* the JSON text holds one of the words)
authorizationRegex(piece) == piece = "US citizen"

\* /(?:linkedin|github|twitter|facebook|instagram)/i on a piece
socialRegex(piece) == piece \in {"github.com/jane", "github"}

\* The rules with one detail ticket pushed for every incomplete entry
TicketsPerEntry(profile) ==
  LET p == profile.personalInfo
      resumeText == Range(StringsOf(profile))
      detail(entries, first, ticket) ==
        SelectSeq([k \in 1..Len(entries) |->
                     IF Falsy(entries[k][first]) \/ Falsy(entries[k].dates)
                     THEN ticket ELSE ""],
                  LAMBDA t : t # "")
  IN (IF Falsy(p.fullName) THEN <<"fullName">> ELSE <<>>)
     \o (IF Falsy(p.email) THEN <<"email">> ELSE <<>>)
     \o (IF Falsy(p.phone) THEN <<"phone">> ELSE <<>>)
     \o (IF Falsy(p.location) THEN <<"location">> ELSE <<>>)
     \o (IF Falsy(p.dateOfBirth) THEN <<"dateOfBirth">> ELSE <<>>)
     \o (IF Len(profile.education) = 0 THEN <<"education">>
         ELSE detail(profile.education, "degree", "completeEducationDetails"))
     \o (IF Len(profile.experience) = 0 THEN <<"workExperience">>
         ELSE detail(profile.experience, "title", "completeWorkExperienceDetails"))
     \o (IF Len(profile.skills) = 0 THEN <<"skills">> ELSE <<>>)
     \o (IF Len(profile.languages) = 0 THEN <<"languages">> ELSE <<>>)
     \o <<"references">>
     \o (IF \E piece \in resumeText : authorizationRegex(piece) THEN <<>>
         ELSE <<"workAuthorizationStatus">>)
     \o (IF \E piece \in resumeText : socialRegex(piece) THEN <<>>
         ELSE <<"socialMediaProfiles">>)

\* The tickets one evaluation of the rules pushes, in the order of the pushes
Tickets(profile) ==
  LET p == profile.personalInfo
      resumeText == Range(StringsOf(profile))
      incompleteEducation ==
        {k \in 1..Len(profile.education) :
           Falsy(profile.education[k].degree) \/ Falsy(profile.education[k].dates)}
      incompleteExperience ==
        {k \in 1..Len(profile.experience) :
           Falsy(profile.experience[k].title) \/ Falsy(profile.experience[k].dates)}
  IN (IF Falsy(p.fullName) THEN <<"fullName">> ELSE <<>>)
     \o (IF Falsy(p.email) THEN <<"email">> ELSE <<>>)
     \o (IF Falsy(p.phone) THEN <<"phone">> ELSE <<>>)
     \o (IF Falsy(p.location) THEN <<"location">> ELSE <<>>)
     \o (IF Falsy(p.dateOfBirth) THEN <<"dateOfBirth">> ELSE <<>>)
     \o (IF Len(profile.education) = 0 THEN <<"education">>
         ELSE IF incompleteEducation # {} THEN <<"completeEducationDetails">>
         ELSE <<>>)
     \o (IF Len(profile.experience) = 0 THEN <<"workExperience">>
         ELSE IF incompleteExperience # {} THEN <<"completeWorkExperienceDetails">>
         ELSE <<>>)
     \o (IF Len(profile.skills) = 0 THEN <<"skills">> ELSE <<>>)
     \o (IF Len(profile.languages) = 0 THEN <<"languages">> ELSE <<>>)
     \o <<"references">>
     \o (IF \E piece \in resumeText : authorizationRegex(piece) THEN <<>>
         ELSE <<"workAuthorizationStatus">>)
     \o (IF \E piece \in resumeText : socialRegex(piece) THEN <<>>
         ELSE <<"socialMediaProfiles">>)

\* The call with the references rule left out
identifyMissingFieldsNoReferences(profile, missingFields) ==
  missingFields \o SelectSeq(Tickets(profile), LAMBDA t : t # "references")

\* this.missingFields after the call: every push appends to the list as it was
identifyMissingFields(profile, missingFields) == missingFields \o Tickets(profile)

\* The object the constructor builds
NewResumeParser ==
  [kind |-> "ResumeParser",
   userData |-> [personalInfo |-> [fullName |-> Null, email |-> Null, phone |-> Null,
                                   location |-> Null, dateOfBirth |-> Null],
                 education |-> <<>>, experience |-> <<>>, skills |-> <<>>,
                 languages |-> <<>>, certifications |-> <<>>],
   missingFields |-> <<>>,
   passes |-> 0, ret |-> "none", evals |-> <<>>]

\* parser.parseResume(filePath) on the object p.  passes, ret and evals are history:
\* the calls made, how the last one ended, and per call that returned: the text
\* read, this.userData before the call, the profile after extractInformation (the
\* one the rules evaluated) and the list the call returned.
parseResume(p, file) ==
  LET profile == extractInformation(p.userData, file.text)
      missingFields == identifyMissingFields(profile, p.missingFields)
  IN IF file.ext \notin {".pdf", ".docx", ".txt"}
     THEN [p EXCEPT !.passes = @ + 1, !.ret = "Unsupported file format"]
     ELSE [p EXCEPT !.userData = profile, !.missingFields = missingFields,
                    !.passes = @ + 1, !.ret = "returned",
                    !.evals = Append(@, [text |-> file.text, before |-> p.userData,
                                         profile |-> profile,
                                         tickets |-> missingFields])]

\* The resumes: each block present or not, in this order.
Resumes ==
  {h \o e \o x \o s \o w :
     h \in {<<>>, HeaderBlock},
     e \in {<<>>, EducationBlock, EducationNoDegreeBlock},
     x \in {<<>>, ExperienceBlock},
     s \in {<<>>, SectionsBlock},
     w \in {<<>>, KeywordsBlock}}

\* Resumes in which a heading is followed by one its pattern does not list, a section
\* holds the name of an entry without a year or a date range, or a language is
\* mentioned outside a languages section
OtherResumes ==
  {EducationBlock \o LanguagesBlock, ExperienceBlock \o CertificationsBlock,
   EducationNoYearBlock, ExperienceNoDatesBlock, ExperienceNoTitleBlock,
   CertificationNoDateBlock, MentionBlock, MentionWithLevelBlock,
   EducationNoDegreeBlock \o ExperienceNoTitleBlock}

ResumeFiles ==
  {[ext |-> ".txt", text |-> t] : t \in Resumes \cup OtherResumes}
  \cup {[ext |-> ".rtf", text |-> <<>>]}

InitParser ==
  /\ InitBot
  /\ InitNoProfile
  /\ InitNoContent
  /\ fnIn = FnIdle
  /\ fnOut = FnIdle
  /\ parser = NewResumeParser

ParseResume ==
  /\ parser.kind = "ResumeParser"
  /\ parser.passes < MaxPasses
  /\ \E file \in ResumeFiles : parser' = parseResume(parser, file)
  /\ UNCHANGED <<userData, loggedInSites, sessionsFile, pc, fileLines, urls, idx,
                 results, calls, loginOk, runs, last, fnIn, fnOut, profileVars, contentVars>>

SpecParser == InitParser /\ [][ParseResume]_vars

-----------------------------------------------------------------------------
(* The profile commands: parse-resume with the interactive collection of the     *)
(* missing fields (index.js), import-cv-json (cvUtils.js) and update-user-data   *)
(* (index.js).  A string the user types or a CV JSON file holds is one line:    *)
(* <<"text">>, <<"">> when it is empty, Null when the JSON field is absent.      *)
(* The fields the commands keep outside personalInfo, the entry sequences and   *)
(* the skills list (references, workAuthorizationStatus, socialMediaProfiles,   *)
(* the credentials) are not part of the profile of the model.                   *)

MaxEntries == 2   \* entries of one sequence the update-user-data menu adds up to
MaxEdits == 2     \* menu choices before Save and Exit in one update-user-data run
MaxCommands == 2  \* profile commands run one after the other

\* What the user types at a text prompt: nothing (Enter), a word, a list
Answers == {EmptyString, <<"Typed">>, <<"Go, Rust">>}

\* value || fallback
OrElse(value, fallback) == IF Falsy(value) THEN fallback ELSE value

\* skillsInput.split(',').map(skill => skill.trim())
SkillsInput(answer) ==
  [k \in 1..Len(SplitLine(answer[1])) |-> <<SplitLine(answer[1])[k]>>]

\* The entry built from the prompts, every prompt answered with answer
PromptEducation(answer) ==
  [institution |-> answer, degree |-> answer, dates |-> answer, gpa |-> answer]

PromptExperience(answer) ==
  [company |-> answer, title |-> answer, dates |-> answer, description |-> answer]

PromptLanguage(answer) == [language |-> answer, proficiency |-> answer]

PromptCertification(answer) == [name |-> answer, date |-> answer, issuer |-> answer]

\* if (!edu.degree) edu.degree = await prompt(..); if (!edu.dates) edu.dates = ..
CompleteEducation(edu, answer) ==
  [edu EXCEPT !.degree = IF Falsy(@) THEN answer ELSE @,
              !.dates = IF Falsy(@) THEN answer ELSE @]

CompleteExperience(exp, answer) ==
  [exp EXCEPT !.title = IF Falsy(@) THEN answer ELSE @,
              !.dates = IF Falsy(@) THEN answer ELSE @]

\* One case of the switch of processMissingFields (yes: the answer to its y/n
\* question is 'y'; answer: what is typed at each of its text prompts)
ProcessField(profile, field, yes, answer) ==
  CASE field = "fullName" -> [profile EXCEPT !.personalInfo.fullName = answer]
    [] field = "email" -> [profile EXCEPT !.personalInfo.email = answer]
    [] field = "phone" -> [profile EXCEPT !.personalInfo.phone = answer]
    [] field = "location" -> [profile EXCEPT !.personalInfo.location = answer]
    [] field = "dateOfBirth" ->
         IF yes THEN [profile EXCEPT !.personalInfo.dateOfBirth = answer] ELSE profile
    [] field = "education" ->
         IF yes THEN [profile EXCEPT !.education = Append(@, PromptEducation(answer))]
         ELSE profile
    [] field = "completeEducationDetails" ->
         [profile EXCEPT !.education =
            [k \in 1..Len(profile.education) |->
               CompleteEducation(profile.education[k], answer)]]
    [] field = "workExperience" ->
         IF yes THEN [profile EXCEPT !.experience = Append(@, PromptExperience(answer))]
         ELSE profile
    [] field = "completeWorkExperienceDetails" ->
         [profile EXCEPT !.experience =
            [k \in 1..Len(profile.experience) |->
               CompleteExperience(profile.experience[k], answer)]]
    [] field = "skills" -> [profile EXCEPT !.skills = SkillsInput(answer)]
    [] field = "languages" ->
         IF yes THEN [profile EXCEPT !.languages = Append(@, PromptLanguage(answer))]
         ELSE profile
    [] OTHER -> profile

\* for (const field of missingFields) switch (field) ...
RECURSIVE processMissingFields(_, _, _, _)
processMissingFields(profile, missingFields, yes, answer) ==
  IF missingFields = <<>> THEN profile
  ELSE processMissingFields(ProcessField(profile, Head(missingFields), yes, answer),
                            Tail(missingFields), yes, answer)

\* The resumes of the parse-resume runs: nothing found, everything found, an
\* education entry without degree
CommandResumes ==
  {<<>>, HeaderBlock \o EducationBlock \o ExperienceBlock \o SectionsBlock,
   HeaderBlock \o EducationNoDegreeBlock}

\* The parse-resume command: a new ResumeParser parses the file; the profile is
\* saved as parsed, or after processMissingFields when the user asks for it.
ParseResumeCommand ==
  /\ editing = NotEditing
  /\ commands < MaxCommands
  /\ \E text \in CommandResumes, fillMissing \in BOOLEAN, yes \in BOOLEAN,
        answer \in Answers :
       \E p \in {parseResume(NewResumeParser, [ext |-> ".txt", text |-> text])} :
         userDataFile' =
           IF p.missingFields # <<>> /\ fillMissing
           THEN processMissingFields(p.userData, p.missingFields, yes, answer)
           ELSE p.userData
  /\ commands' = commands + 1
  /\ UNCHANGED <<userData, loggedInSites, sessionsFile, pc, fileLines, urls, idx,
                 results, calls, loginOk, runs, last, fnIn, fnOut, parser, editing, contentVars>>

\* formatDate
formatDate(dateStr) == IF Falsy(dateStr) THEN <<"">> ELSE dateStr

\* formatDisplayDate: DD/MM/YYYY and YYYY-MM become 'Month YYYY'
formatDisplayDate(dateStr) ==
  CASE Falsy(dateStr) -> <<"">>
    [] dateStr = <<"01/02/2020">> -> <<"February 2020">>
    [] dateStr = <<"2021-03">> -> <<"March 2021">>
    [] OTHER -> dateStr

\* components.join(', ') of the address fields that are set
RECURSIVE JoinSet(_)
JoinSet(components) ==
  IF components = <<>> THEN ""
  ELSE IF Len(components) = 1 THEN components[1][1]
  ELSE components[1][1] \o ", " \o JoinSet(Tail(components))

generateLocation(cvData) ==
  <<JoinSet((IF Falsy(cvData.address1) THEN <<>> ELSE <<cvData.address1>>)
            \o (IF Falsy(cvData.address2) THEN <<>> ELSE <<cvData.address2>>)
            \o (IF Falsy(cvData.city) THEN <<>> ELSE <<cvData.city>>)
            \o (IF Falsy(cvData.county) THEN <<>> ELSE <<cvData.county>>)
            \o (IF Falsy(cvData.postcode) THEN <<>> ELSE <<cvData.postcode>>)
            \o (IF Falsy(cvData.residence) THEN <<>> ELSE <<cvData.residence>>))>>

\* `${value}`: an absent field reads 'undefined'
Str(value) == IF value = Null THEN "undefined" ELSE value[1]

\* The education entries: the array of the file as it is, else the entries built
\* from the university and school fields
ConvertEducation(cvData) ==
  IF cvData.education # Null THEN cvData.education
  ELSE IF ~Falsy(cvData.university)
    THEN <<[institution |-> cvData.university,
            degree |-> <<Str(cvData.degree) \o " in " \o Str(cvData.discipline)>>,
            dates |-> <<formatDate(cvData.undergrad_start_date)[1] \o " to "
                          \o formatDate(cvData.undergrad_end_date)[1]>>,
            gpa |-> cvData.degree_score]>>
         \o (IF ~Falsy(cvData.school_name)
             THEN <<[institution |-> cvData.school_name,
                     degree |-> cvData.school_system,
                     dates |-> <<formatDate(cvData.school_start_date)[1] \o " to "
                                   \o formatDate(cvData.school_end_date)[1]>>,
                     gpa |-> cvData.school_grades]>>
             ELSE <<>>)
  ELSE <<>>

\* for (let i = 1; i <= 5; i++): employers[i] holds the fields employer_name<i>,
\* role_title<i>, start_date<i>, end_date<i>, country_of_employer<i>
RECURSIVE ConvertExperience(_)
ConvertExperience(employers) ==
  IF employers = <<>> THEN <<>>
  ELSE LET e == Head(employers)
       IN (IF ~Falsy(e.employer_name) /\ ~Falsy(e.role_title)
           THEN <<[company |-> e.employer_name,
                   title |-> e.role_title,
                   dates |-> <<formatDisplayDate(e.start_date)[1] \o " to "
                                 \o formatDisplayDate(e.end_date)[1]>>,
                   description |-> <<"Worked as " \o e.role_title[1] \o " at "
                                       \o e.employer_name[1] \o " in "
                                       \o Str(e.country_of_employer)>>]>>
           ELSE <<>>)
          \o ConvertExperience(Tail(employers))

ConvertLanguages(cvData) ==
  (IF ~Falsy(cvData.native_language)
   THEN <<[language |-> cvData.native_language, proficiency |-> <<"Native">>]>>
   ELSE <<>>)
  \o (IF ~Falsy(cvData.fluent_language)
      THEN <<[language |-> cvData.fluent_language, proficiency |-> <<"Fluent">>]>>
      ELSE <<>>)
  \o (IF ~Falsy(cvData.professional_language)
         /\ cvData.professional_language # <<"None">>
      THEN <<[language |-> cvData.professional_language,
              proficiency |-> <<"Professional">>]>>
      ELSE <<>>)

convertToUserData(cvData) ==
  [personalInfo |->
     [fullName |-> <<Str(cvData.first_name) \o " " \o Str(cvData.last_name)>>,
      email |-> cvData.email, phone |-> cvData.phone,
      location |-> generateLocation(cvData), dateOfBirth |-> Null],
   education |-> ConvertEducation(cvData),
   experience |-> ConvertExperience(cvData.employers),
   skills |-> cvData.skills,
   languages |-> ConvertLanguages(cvData),
   certifications |-> cvData.certifications]

\* A CV JSON file with the university and school fields, one employer out of five
\* slots and three languages
CvFields ==
  [first_name |-> <<"Jane">>, last_name |-> <<"Doe">>, email |-> <<"jane@example.com">>,
   phone |-> <<"555-123-4567">>, address1 |-> <<"1 Main St">>, address2 |-> Null,
   city |-> <<"Austin">>, county |-> Null, postcode |-> <<"78701">>, residence |-> Null,
   skills |-> <<<<"Go">>>>, certifications |-> <<>>, education |-> Null,
   university |-> <<"Acme University">>, degree |-> <<"BSc">>,
   discipline |-> <<"Physics">>, undergrad_start_date |-> <<"2014">>,
   undergrad_end_date |-> <<"2018">>, degree_score |-> <<"3.9">>,
   school_name |-> <<"Austin High">>, school_system |-> <<"Diploma">>,
   school_start_date |-> <<"2010">>, school_end_date |-> Null,
   school_grades |-> Null,
   employers |-> <<[employer_name |-> <<"Initech">>, role_title |-> <<"Engineer">>,
                    start_date |-> <<"01/02/2020">>, end_date |-> <<"2021-03">>,
                    country_of_employer |-> <<"US">>],
                   [employer_name |-> <<"">>, role_title |-> <<"Intern">>,
                    start_date |-> Null, end_date |-> Null,
                    country_of_employer |-> Null]>>,
   native_language |-> <<"English">>, fluent_language |-> <<"">>,
   professional_language |-> <<"None">>]

\* The same file with an education and a certifications array, one entry of each
\* without its name
CvArrays ==
  [CvFields EXCEPT
     !.education = <<[institution |-> <<"">>, degree |-> <<"BSc">>,
                      dates |-> <<"2014 to 2018">>, gpa |-> Null]>>,
     !.certifications = <<[name |-> <<"">>, date |-> <<"2020">>, issuer |-> Null]>>]

CvDatas == {CvFields, CvArrays}

\* The import-cv-json command: the converted data replace data/user_data.json.
ImportCVJson ==
  /\ editing = NotEditing
  /\ commands < MaxCommands
  /\ \E cvData \in CvDatas : userDataFile' = convertToUserData(cvData)
  /\ commands' = commands + 1
  /\ UNCHANGED <<userData, loggedInSites, sessionsFile, pc, fileLines, urls, idx,
                 results, calls, loginOk, runs, last, fnIn, fnOut, parser, editing, contentVars>>

\* update-user-data starts: the saved data are loaded, or an empty profile is made.
MenuOpen ==
  /\ editing = NotEditing
  /\ commands < MaxCommands
  /\ editing' = [kind |-> "menu",
                 userData |-> IF userDataFile = NoFile THEN NewResumeParser.userData
                              ELSE userDataFile,
                 choices |-> 0]
  /\ commands' = commands + 1
  /\ UNCHANGED <<userData, loggedInSites, sessionsFile, pc, fileLines, urls, idx,
                 results, calls, loginOk, runs, last, fnIn, fnOut, parser,
                 userDataFile, contentVars>>

\* One pass of the menu loop that changes the userData object to edited
MenuChoice(edited) ==
  /\ editing.kind = "menu"
  /\ editing.choices < MaxEdits
  /\ editing' = [editing EXCEPT !.userData = edited, !.choices = @ + 1]
  /\ UNCHANGED <<userData, loggedInSites, sessionsFile, pc, fileLines, urls, idx,
                 results, calls, loginOk, runs, last, fnIn, fnOut, parser,
                 userDataFile, commands, contentVars>>

\* case '1': every field is prompted for; an empty answer keeps the value
MenuPersonalInfo ==
  \E answer \in Answers :
    /\ editing.kind = "menu"
    /\ MenuChoice([editing.userData EXCEPT
                  !.personalInfo = [f \in DOMAIN @ |-> OrElse(answer, @[f])]])

\* cases '2', '3', '5', '6' on the sequence entries: with entries, 'a' adds the
\* prompted entry and 'b' removes the entry of the number typed (anything else
\* goes back); without entries, 'y' adds the prompted entry
EditEntries(entries, choice, number, prompted) ==
  IF entries # <<>>
  THEN CASE choice = "a" -> Append(entries, prompted)
         [] choice = "b" /\ number \in 1..Len(entries) ->
              SubSeq(entries, 1, number - 1) \o SubSeq(entries, number + 1, Len(entries))
         [] OTHER -> entries
  ELSE IF choice = "y" THEN Append(entries, prompted) ELSE entries

\* The answers to the choice prompt and the entry numbers typed
MenuChoices == {"a", "b", "y", "c"}

EntryNumbers == 0..MaxEntries

MenuEducation ==
  \E choice \in MenuChoices, number \in EntryNumbers, answer \in Answers :
    /\ editing.kind = "menu"
    /\ choice \in {"a", "y"} => Len(editing.userData.education) < MaxEntries
    /\ MenuChoice([editing.userData EXCEPT
                     !.education = EditEntries(@, choice, number,
                                               PromptEducation(answer))])

MenuExperience ==
  \E choice \in MenuChoices, number \in EntryNumbers, answer \in Answers :
    /\ editing.kind = "menu"
    /\ choice \in {"a", "y"} => Len(editing.userData.experience) < MaxEntries
    /\ MenuChoice([editing.userData EXCEPT
                     !.experience = EditEntries(@, choice, number,
                                                PromptExperience(answer))])

\* case '4'
MenuSkills ==
  \E yes \in BOOLEAN, answer \in Answers :
    /\ editing.kind = "menu"
    /\ MenuChoice([editing.userData EXCEPT
                  !.skills = IF yes THEN SkillsInput(answer) ELSE @])

MenuLanguages ==
  \E choice \in MenuChoices, number \in EntryNumbers, answer \in Answers :
    /\ editing.kind = "menu"
    /\ choice \in {"a", "y"} => Len(editing.userData.languages) < MaxEntries
    /\ MenuChoice([editing.userData EXCEPT
                     !.languages = EditEntries(@, choice, number,
                                               PromptLanguage(answer))])

MenuCertifications ==
  \E choice \in MenuChoices, number \in EntryNumbers, answer \in Answers :
    /\ editing.kind = "menu"
    /\ choice \in {"a", "y"} => Len(editing.userData.certifications) < MaxEntries
    /\ MenuChoice([editing.userData EXCEPT
                     !.certifications = EditEntries(@, choice, number,
                                                    PromptCertification(answer))])

\* case '8': saveUserData(userData); exit = true
MenuSaveAndExit ==
  /\ editing.kind = "menu"
  /\ userDataFile' = editing.userData
  /\ editing' = NotEditing
  /\ UNCHANGED <<userData, loggedInSites, sessionsFile, pc, fileLines, urls, idx,
                 results, calls, loginOk, runs, last, fnIn, fnOut, parser, commands, contentVars>>

InitProfile ==
  /\ InitBot
  /\ InitNoProfile
  /\ InitNoContent
  /\ fnIn = FnIdle
  /\ fnOut = FnIdle
  /\ parser = ParserIdle

NextProfile ==
  \/ ParseResumeCommand
  \/ ImportCVJson
  \/ MenuOpen
  \/ MenuPersonalInfo
  \/ MenuEducation
  \/ MenuExperience
  \/ MenuSkills
  \/ MenuLanguages
  \/ MenuCertifications
  \/ MenuSaveAndExit

SpecProfile == InitProfile /\ [][NextProfile]_vars

-----------------------------------------------------------------------------
(* The content script of the generated extension (index.js, the contentJs       *)
(* template): analyzePage with createFormMappings, and autoFillApplication.     *)
(* A string of the page or of the profile is the sequence of its pieces, ''     *)
(* being <<>>; the pieces are chosen so that one string contains another        *)
(* exactly when its pieces contain the pieces of the other in a row.  A value   *)
(* that may be null is Null or <<string>>.  The colours highlightField sets and *)
(* the file inputs, which autoFillApplication only highlights, are left out.    *)

MaxFields == 2  \* form controls of a page

\* Letters of a piece in lower case
LowerPiece(piece) ==
  CASE piece = "Name" -> "name"
    [] piece = "First" -> "first"
    [] piece = "Phone" -> "phone"
    [] piece = "Jane" -> "jane"
    [] piece = "JANE" -> "jane"
    [] piece = "Q" -> "q"
    [] piece = "Public" -> "public"
    [] piece = "Doe" -> "doe"
    [] piece = "DOE" -> "doe"
    [] piece = "Go" -> "go"
    [] piece = "Rust" -> "rust"
    [] piece = "Python" -> "python"
    [] piece = "Your " -> "your "
    [] OTHER -> piece

\* String.prototype.toLowerCase
toLowerCase(str) == [k \in 1..Len(str) |-> LowerPiece(str[k])]

\* String.prototype.includes with a string argument
StrIncludes(str, part) ==
  \E i \in 0..(Len(str) - Len(part)) : SubSeq(str, i + 1, i + Len(part)) = part

\* String.prototype.split(' '): the pieces between the single blanks (cur: the part
\* begun before)
RECURSIVE SplitBlank(_, _)
SplitBlank(str, cur) ==
  IF str = <<>> THEN <<cur>>
  ELSE IF Head(str) = " " THEN <<cur>> \o SplitBlank(Tail(str), <<>>)
  ELSE SplitBlank(Tail(str), Append(cur, Head(str)))

\* Array.prototype.join
RECURSIVE JoinWith(_, _)
JoinWith(strs, sep) ==
  IF strs = <<>> THEN <<>>
  ELSE IF Len(strs) = 1 THEN strs[1]
  ELSE strs[1] \o <<sep>> \o JoinWith(Tail(strs), sep)

\* `${value}`
Template(value) == IF value = Null THEN <<"null">> ELSE value[1]

\* if (value): neither null nor ''
Truthy(value) == value # Null /\ value[1] # <<>>

\* input.dataset.fieldType of a control createFormMappings has not set it on
NoFieldType == ""

\* An <input type="text"> without attributes, label or value, inside a form.
\* forLabel, parentLabel, previousText: the text of the label[for=id], of the
\* enclosing label, of the LABEL, SPAN or DIV just before the control (Null: no
\* such element).  written: history, autoFillApplication assigned input.value in
\* its last run.
TextInput ==
  [tagName |-> "INPUT", type |-> "text", name |-> <<>>, id |-> <<>>,
   placeholder |-> <<>>, forLabel |-> Null, parentLabel |-> Null,
   previousText |-> Null, options |-> <<>>, value |-> <<>>, inForm |-> TRUE,
   dataset |-> [automationAnalyzed |-> FALSE, fieldType |-> NoFieldType],
   written |-> FALSE]

Named(str) == [TextInput EXCEPT !.name = str]

Select(str, opts) ==
  [TextInput EXCEPT !.tagName = "SELECT", !.type = "select-one", !.name = str,
                    !.options = opts, !.value = opts[1].value]

Textarea(str) ==
  [TextInput EXCEPT !.tagName = "TEXTAREA", !.type = "textarea", !.name = str]

SkillOptions ==
  <<[text |-> <<"Choose">>, value |-> <<>>],
    [text |-> <<"Go", "lang">>, value |-> <<"golang">>],
    [text |-> <<"Python">>, value |-> <<"python">>]>>

NameOptions ==
  <<[text |-> <<"Other">>, value |-> <<"0">>],
    [text |-> <<"JANE", " ", "DOE">>, value |-> <<"1">>],
    [text |-> <<"Jane", " ", "Doe", " ", "Jr">>, value |-> <<"2">>]>>

\* The controls of the pages
Controls ==
  {Named(<<"first", "_", "name", "_", "email">>),
   Named(<<"last", "_", "name">>),
   Named(<<"Name">>),
   Named(<<"first">>),
   Named(<<"email", "_", "address">>),
   Named(<<"address">>),
   Named(<<"city">>),
   Named(<<"state">>),
   Named(<<"postal", "_code">>),
   Named(<<"education">>),
   Textarea(<<"education">>),
   Textarea(<<"experience">>),
   Named(<<"experience">>),
   Select(<<"skill", "s">>, SkillOptions),
   Select(<<"full", "_", "name">>, NameOptions),
   [TextInput EXCEPT !.type = "email"],
   [TextInput EXCEPT !.type = "tel", !.inForm = FALSE],
   [TextInput EXCEPT !.placeholder = <<"Phone">>, !.inForm = FALSE],
   [TextInput EXCEPT !.id = <<"f1">>, !.forLabel = <<<<"First", " ", "name">>>>,
                     !.parentLabel = <<<<"Email">>>>],
   [TextInput EXCEPT !.forLabel = <<<<"First", " ", "name">>>>,
                     !.previousText = <<<<"Your ", "Name">>>>],
   [TextInput EXCEPT !.parentLabel = <<<<>>>>, !.previousText = <<<<"phone">>>>,
                     !.value = <<"draft">>]}

\* findLabelForInput
findLabelForInput(input) ==
  IF input.id # <<>> /\ input.forLabel # Null THEN <<toLowerCase(input.forLabel[1])>>
  ELSE IF input.parentLabel # Null THEN <<toLowerCase(input.parentLabel[1])>>
  ELSE IF input.previousText # Null THEN <<toLowerCase(input.previousText[1])>>
  ELSE Null

\* name.includes(k) || id.includes(k) || placeholder.includes(k) ||
\* (label && label.includes(k))
AnyIncludes(input, keyword) ==
  \/ Includes(toLowerCase(input.name), keyword)
  \/ Includes(toLowerCase(input.id), keyword)
  \/ Includes(toLowerCase(input.placeholder), keyword)
  \/ /\ Truthy(findLabelForInput(input))
     /\ Includes(findLabelForInput(input)[1], keyword)

\* FieldTypeOf with the email test moved before the name tests
FieldTypeOfEmailFirst(input) ==
  IF AnyIncludes(input, "email") \/ input.type = "email" THEN "email"
  ELSE IF AnyIncludes(input, "name")
  THEN IF AnyIncludes(input, "first") THEN "firstName"
       ELSE IF AnyIncludes(input, "last") THEN "lastName"
       ELSE "fullName"
  ELSE IF AnyIncludes(input, "phone") \/ input.type = "tel" THEN "phone"
  ELSE IF AnyIncludes(input, "address") THEN "address"
  ELSE IF AnyIncludes(input, "city") THEN "city"
  ELSE IF AnyIncludes(input, "state") THEN "state"
  ELSE IF AnyIncludes(input, "zip") \/ AnyIncludes(input, "postal") THEN "zip"
  ELSE IF AnyIncludes(input, "education") THEN "education"
  ELSE IF AnyIncludes(input, "experience") THEN "experience"
  ELSE IF AnyIncludes(input, "skill") THEN "skills"
  ELSE input.dataset.fieldType

\* The body of the forEach of createFormMappings: the fieldType the control has
\* afterwards
FieldTypeOf(input) ==
  IF AnyIncludes(input, "name")
  THEN IF AnyIncludes(input, "first") THEN "firstName"
       ELSE IF AnyIncludes(input, "last") THEN "lastName"
       ELSE "fullName"
  ELSE IF AnyIncludes(input, "email") \/ input.type = "email" THEN "email"
  ELSE IF AnyIncludes(input, "phone") \/ input.type = "tel" THEN "phone"
  ELSE IF AnyIncludes(input, "address") THEN "address"
  ELSE IF AnyIncludes(input, "city") THEN "city"
  ELSE IF AnyIncludes(input, "state") THEN "state"
  ELSE IF AnyIncludes(input, "zip") \/ AnyIncludes(input, "postal") THEN "zip"
  ELSE IF AnyIncludes(input, "education") THEN "education"
  ELSE IF AnyIncludes(input, "experience") THEN "experience"
  ELSE IF AnyIncludes(input, "skill") THEN "skills"
  ELSE input.dataset.fieldType

\* createFormMappings: every input, select and textarea of the page
createFormMappings(controls) ==
  [k \in 1..Len(controls) |->
     [controls[k] EXCEPT !.dataset.fieldType = FieldTypeOf(controls[k])]]

\* The controls analyzePage marks: those inside a form when the page has a form
\* (the forms of the model are those that hold a control), else all of them
MarkAnalyzed(controls) ==
  LET forms == \E k \in 1..Len(controls) : controls[k].inForm
  IN [k \in 1..Len(controls) |->
        IF forms => controls[k].inForm
        THEN [controls[k] EXCEPT !.dataset.automationAnalyzed = TRUE]
        ELSE controls[k]]

\* analyzePage: the page afterwards and the result
analyzePage(controls) ==
  LET forms == \E k \in 1..Len(controls) : controls[k].inForm
  IN [document |-> createFormMappings(MarkAnalyzed(controls)),
      result |-> [success |-> TRUE,
                  formFields |-> Cardinality({k \in 1..Len(controls) :
                                                forms => controls[k].inForm})]]

\* The map that takes the first entry alone
EducationLinesMostRecent(education) ==
  <<Template(education[1].institution) \o <<", ">> \o Template(education[1].degree)
      \o <<", ">> \o Template(education[1].dates)>>

\* userData.education.map(edu => `${institution}, ${degree}, ${dates}`)
EducationLines(education) ==
  [k \in 1..Len(education) |->
     Template(education[k].institution) \o <<", ">> \o Template(education[k].degree)
       \o <<", ">> \o Template(education[k].dates)]

\* userData.experience.map(exp => `${company}, ${title}, ${dates}\n${description}`)
ExperienceLines(experience) ==
  [k \in 1..Len(experience) |->
     Template(experience[k].company) \o <<", ">> \o Template(experience[k].title)
       \o <<", ">> \o Template(experience[k].dates) \o <<"\n">>
       \o Template(experience[k].description)]

\* The switch of autoFillApplication: the value for a control of a field type
ValueFor(input, fieldType, profile) ==
  CASE fieldType = "firstName" ->
         IF Truthy(profile.personalInfo.fullName)
         THEN <<SplitBlank(profile.personalInfo.fullName[1], <<>>)[1]>>
         ELSE Null
    [] fieldType = "lastName" ->
         IF Truthy(profile.personalInfo.fullName)
         THEN LET nameParts == SplitBlank(profile.personalInfo.fullName[1], <<>>)
              IN <<nameParts[Len(nameParts)]>>
         ELSE Null
    [] fieldType = "fullName" -> profile.personalInfo.fullName
    [] fieldType = "email" -> profile.personalInfo.email
    [] fieldType = "phone" -> profile.personalInfo.phone
    [] fieldType = "address" ->
         IF Truthy(profile.personalInfo.location) THEN profile.personalInfo.location
         ELSE Null
    [] fieldType = "education" ->
         IF Len(profile.education) > 0
         THEN IF input.tagName = "TEXTAREA"
              THEN <<JoinWith(EducationLines(profile.education), "\n")>>
              ELSE <<Template(profile.education[1].institution) \o <<" - ">>
                       \o Template(profile.education[1].degree)>>
         ELSE Null
    [] fieldType = "experience" ->
         IF Len(profile.experience) > 0
         THEN IF input.tagName = "TEXTAREA"
              THEN <<JoinWith(ExperienceLines(profile.experience), "\n\n")>>
              ELSE <<Template(profile.experience[1].company) \o <<" - ">>
                       \o Template(profile.experience[1].title)>>
         ELSE Null
    [] fieldType = "skills" ->
         IF Len(profile.skills) > 0 THEN <<JoinWith(profile.skills, ", ")>> ELSE Null
    [] OTHER -> Null

\* options.find(opt => opt.text.toLowerCase().includes(value.toLowerCase())):
\* the index of the first such option, 0 when there is none
FindOption(options, str) ==
  LET found == {k \in 1..Len(options) :
                  StrIncludes(toLowerCase(options[k].text), toLowerCase(str))}
  IN IF found = {} THEN 0 ELSE CHOOSE k \in found : \A j \in found : k <= j

\* FillWith that writes whatever the switch left in value, null included
FillWithAny(input, value) ==
  IF input.tagName = "SELECT" THEN input
  ELSE [input EXCEPT !.value = Template(value), !.written = TRUE]

\* FillWith that takes the first option of a select when no option matches
FillWithFirstOption(input, value) ==
  IF ~Truthy(value) THEN input
  ELSE IF input.tagName = "SELECT"
  THEN IF FindOption(input.options, value[1]) # 0
       THEN [input EXCEPT
               !.value = input.options[FindOption(input.options, value[1])].value,
               !.written = TRUE]
       ELSE [input EXCEPT !.value = input.options[1].value, !.written = TRUE]
  ELSE [input EXCEPT !.value = value[1], !.written = TRUE]

\* The body of the forEach of autoFillApplication on one analysed control, with
\* the value its switch found
FillWith(input, value) ==
  IF ~Truthy(value) THEN input
  ELSE IF input.tagName = "SELECT"
  THEN IF FindOption(input.options, value[1]) # 0
       THEN [input EXCEPT
               !.value = input.options[FindOption(input.options, value[1])].value,
               !.written = TRUE]
       ELSE input
  ELSE [input EXCEPT !.value = value[1], !.written = TRUE]

\* FillControl that takes a control without field type for a fullName control
FillControlForced(input, profile) ==
  IF input.dataset.automationAnalyzed
  THEN FillWith([input EXCEPT !.written = FALSE],
                ValueFor(input,
                         IF input.dataset.fieldType = NoFieldType THEN "fullName"
                         ELSE input.dataset.fieldType,
                         profile))
  ELSE [input EXCEPT !.written = FALSE]

FillControl(input, profile) ==
  IF input.dataset.automationAnalyzed /\ input.dataset.fieldType # NoFieldType
  THEN FillWith([input EXCEPT !.written = FALSE],
                ValueFor(input, input.dataset.fieldType, profile))
  ELSE [input EXCEPT !.written = FALSE]

\* autoFillApplication: the page afterwards and the result
autoFillApplication(controls, profile) ==
  LET filled == [k \in 1..Len(controls) |-> FillControl(controls[k], profile)]
  IN [document |-> filled,
      result |-> [success |-> TRUE,
                  filledFields |-> Cardinality({k \in 1..Len(filled) :
                                                  filled[k].written})]]

\* The full names of the profiles: three words, one word, two blanks in a row,
\* blanks around the name and a tab in it; none
FullNames ==
  {<<<<"Jane", " ", "Q", " ", "Public">>>>, <<<<"Jane">>>>,
   <<<<"Jane", " ", " ", "Doe">>>>, <<<<" ", "Jane", "\t", "Doe", " ">>>>, Null}

FormProfile(fullName) ==
  [personalInfo |-> [fullName |-> fullName, email |-> <<<<"jane@example.com">>>>,
                     phone |-> <<<<"555-123-4567">>>>,
                     location |-> <<<<"Austin", ", ", "TX">>>>],
   education |-> <<[institution |-> <<<<"Acme University">>>>, degree |-> Null,
                    dates |-> <<<<"2014 - 2018">>>>],
                   [institution |-> <<<<"Austin High">>>>, degree |-> <<<<"Diploma">>>>,
                    dates |-> <<<<>>>>]>>,
   experience |-> <<[company |-> <<<<"Initech">>>>, title |-> <<<<"Engineer">>>>,
                     dates |-> <<<<"2019 - 2021">>>>,
                     description |-> <<<<"Built things">>>>],
                    [company |-> <<<<"Globex">>>>, title |-> Null,
                     dates |-> <<<<"2017 - 2019">>>>,
                     description |-> <<<<"Reports">>>>]>>,
   skills |-> <<<<"Go">>, <<"Rust">>>>]

\* A profile with one skill and nothing else
SparseProfile ==
  [personalInfo |-> [fullName |-> <<<<>>>>, email |-> Null, phone |-> Null,
                     location |-> Null],
   education |-> <<>>, experience |-> <<>>, skills |-> <<<<"Go">>>>]

FormProfiles == {FormProfile(fullName) : fullName \in FullNames} \cup {SparseProfile}

\* request.action === 'analyzePage'
OnAnalyzePage ==
  /\ document # <<>>
  /\ \E o \in {analyzePage(document)} :
       /\ document' = o.document
       /\ response' = o.result
  /\ request' = [action |-> "analyzePage"]
  /\ UNCHANGED <<userData, loggedInSites, sessionsFile, pc, fileLines, urls, idx,
                 results, calls, loginOk, runs, last, fnIn, fnOut, parser, profileVars>>

\* request.action === 'autoFill'
OnAutoFill ==
  /\ document # <<>>
  /\ \E profile \in FormProfiles :
       /\ \E o \in {autoFillApplication(document, profile)} :
            /\ document' = o.document
            /\ response' = o.result
       /\ request' = [action |-> "autoFill", userData |-> profile]
  /\ UNCHANGED <<userData, loggedInSites, sessionsFile, pc, fileLines, urls, idx,
                 results, calls, loginOk, runs, last, fnIn, fnOut, parser, profileVars>>

\* The pages: up to MaxFields of the controls, in any order
InitContent ==
  /\ InitBot
  /\ InitNoProfile
  /\ fnIn = FnIdle
  /\ fnOut = FnIdle
  /\ parser = ParserIdle
  /\ \E n \in 1..MaxFields : document \in [1..n -> Controls]
  /\ request = NoMessage
  /\ response = NoMessage

NextContent == OnAnalyzePage \/ OnAutoFill

SpecContent == InitContent /\ [][NextContent]_vars

-----------------------------------------------------------------------------
(* Properties of the authentication core (C1 - C8) *)

\* How many operations of kind op the call performed
OpCount(ev, op) == Cardinality({k \in 1..Len(ev) : ev[k].op = op})

HasOp(ev, op) == \E k \in 1..Len(ev) : ev[k].op = op

\* The hostname contains none of 'linkedin', 'indeed', 'glassdoor'
NoRegistryMatch(domain) ==
  /\ ~Includes(domain, "linkedin")
  /\ ~Includes(domain, "indeed")
  /\ ~Includes(domain, "glassdoor")

\* handleAuthentication ran for a hostname without registry match and without an
\* entry of userData.genericCredentials
UnregisteredAttempt ==
  /\ last.called
  /\ last.authCalled
  /\ NoRegistryMatch(Hostname(last.url))
  /\ ~HasGenericCred(userData, Hostname(last.url))

\* C1, as stated: for a hostname with no registry match and no entry of
\* genericCredentials, handleAuthentication returns false and fills no field,
\* whatever the page shows.
C1_AlwaysFailure ==
  UnregisteredAttempt => (~last.authRet /\ ~HasOp(last.ev, "fill"))

\* C1, amended: for such a hostname no field is ever filled and the generic flow,
\* when it runs, returns false; handleAuthentication returns true only by its early
\* return, on a saved Session of that hostname that the probe finds still valid.
C1_NoFillAndFailureUnlessSessionValid ==
  UnregisteredAttempt =>
    /\ ~HasOp(last.ev, "fill")
    /\ last.strategy \in {"generic", "none"}
    /\ last.strategy = "generic" => ~last.authRet
    /\ last.authRet => (last.strategy = "none" /\ last.hadSession
                        /\ last.ev[2] = Ev("probe", "checkIfStillLoggedIn"))

\* The login form is complete and visible, the credentials are missing, no Session
\* is saved: the generic flow ran and failed.
C1_Witness ==
  /\ UnregisteredAttempt
  /\ last.jobPage = pLoginForm
  /\ ~last.hadSession
  /\ last.strategy = "generic"
  /\ ~last.authRet

\* C2, as stated: after a successful login for URL u on this bot, a later
\* handleAuthentication(u) on the same bot finds the Session (loggedInSites.has) and
\* runs the probe before any login flow.
C2_SessionFoundUnderLookupKey ==
  (last.called /\ last.authCalled /\ last.priorOk) =>
    /\ last.hadSession
    /\ last.ev[2] = Ev("probe", "checkIfStillLoggedIn")

\* C3: checkIfStillLoggedIn returns true exactly when no logged-out indicator is
\* visible and at least one logged-in indicator is visible (so a visible logged-out
\* indicator wins, and no indicator at all gives false).
C3_ValidOnlyWhenLoggedInAndNoLoginIndicator ==
  fnOut.kind = "probe" =>
    (fnOut.ret <=> /\ Range(loginIndicators) \cap fnIn.page.vis = {}
                   /\ Range(loggedInIndicators) \cap fnIn.page.vis # {})

\* Both kinds of indicator are visible and the probe answered invalid.
C3_Witness ==
  /\ fnOut.kind = "probe"
  /\ Range(loginIndicators) \cap fnIn.page.vis # {}
  /\ Range(loggedInIndicators) \cap fnIn.page.vis # {}
  /\ ~fnOut.ret

\* The credential the login flow of this strategy types in
CredentialOf(ud, strategy, domain) ==
  CASE strategy = "linkedin" -> ud.linkedinCredentials
    [] strategy = "indeed" -> ud.indeedCredentials
    [] strategy = "glassdoor" -> ud.glassdoorCredentials
    [] OTHER -> ud.genericCredentials[domain]

\* The cookie the login flow of this strategy keeps: the site's session cookie
\* (cookies.find by name) for the known sites, cookies[0] for the generic flow
SessionCookieOf(strategy, jar) ==
  LET name == CASE strategy = "linkedin" -> "li_at"
                [] strategy = "indeed" -> "JSESSIONID"
                [] strategy = "glassdoor" -> "GSESSIONID"
                [] OTHER -> "<first>"
      named == {c \in Range(jar) : c.name = name}
  IN IF name = "<first>" THEN (IF Len(jar) = 0 THEN NoCookie ELSE jar[1])
     ELSE IF named = {} THEN NoCookie
     ELSE CHOOSE c \in named : TRUE

\* The Session a successful login of the last call must have left under its key:
\* every field from this login (the current credential, a cookie of the current jar
\* or none), nothing from the Session it replaced.
FreshSession ==
  [domain |-> last.key,
   username |-> CredentialOf(userData, last.strategy, Hostname(last.url)).username,
   cookie |-> SessionCookieOf(last.strategy, last.jar)]

\* C4: the Map holds at most one Session per key; a successful (re-)authentication
\* leaves under its key a Session made of this login's fields only; the stored list
\* has exactly one entry per key of the Map, equal to the Map's Session.
C4_OneSessionPerKeyOverwritten ==
  /\ \A i, j \in 1..Len(loggedInSites) :
       loggedInSites[i].domain = loggedInSites[j].domain => i = j
  /\ (last.called /\ last.key # NoKey) =>
       /\ MapHas(loggedInSites, last.key)
       /\ MapGet(loggedInSites, last.key) = FreshSession
  /\ Len(sessionsFile) = Len(loggedInSites)
  /\ \A k \in 1..Len(sessionsFile) : sessionsFile[k] = loggedInSites[k]

\* A re-authentication replaced a Session whose username and cookie both differ from
\* the new ones, and the new one has no cookie.
C4_Witness ==
  /\ last.called
  /\ last.key # NoKey
  /\ last.prior # NoSession
  /\ last.prior.username # FreshSession.username
  /\ last.prior.cookie # NoCookie
  /\ FreshSession.cookie = NoCookie
  /\ Len(sessionsFile) = 1

\* C5: when handleAuthentication does not return early it runs exactly one login
\* flow, the first of linkedin, indeed, glassdoor whose name the hostname contains,
\* the generic flow when it contains none; on the early return it runs none.
C5_FirstMatchSelectsOneFlow ==
  (last.called /\ last.authCalled) =>
    LET h == Hostname(last.url)
        flows == {k \in 1..Len(last.ev) : last.ev[k].op = "flow"}
    IN IF last.strategy = "none" THEN flows = {}
       ELSE /\ Cardinality(flows) = 1
            /\ \A k \in flows : last.ev[k].arg = last.strategy
            /\ Includes(h, "linkedin") => last.strategy = "linkedin"
            /\ (~Includes(h, "linkedin") /\ Includes(h, "indeed"))
                 => last.strategy = "indeed"
            /\ (~Includes(h, "linkedin") /\ ~Includes(h, "indeed")
                  /\ Includes(h, "glassdoor")) => last.strategy = "glassdoor"
            /\ NoRegistryMatch(h) => last.strategy = "generic"

\* A hostname containing both 'indeed' and 'linkedin' ran the linkedin flow.
C5_Witness ==
  /\ last.called
  /\ last.authCalled
  /\ Hostname(last.url) = hMulti
  /\ last.strategy = "linkedin"
  /\ OpCount(last.ev, "flow") = 1

\* One of the three form elements has no visible match on the page
FormIncomplete(page) ==
  \/ Range(usernameSelectors) \cap page.vis = {}
  \/ Range(passwordSelectors) \cap page.vis = {}
  \/ Range(submitSelectors) \cap page.vis = {}

\* C6: when the username field, the password field or the submit control has no
\* visible match, the generic flow returns false, fills nothing, clicks nothing.
C6_NoPartialFill ==
  (fnOut.kind = "generic" /\ FormIncomplete(fnIn.page)) =>
    /\ ~fnOut.flow.ret
    /\ ~HasOp(fnOut.flow.ev, "fill")
    /\ ~HasOp(fnOut.flow.ev, "click")
    /\ fnOut.flow.key = NoKey

\* Username and password fields are visible, the only submit control is hidden, the
\* credentials exist: the flow ran and failed.
C6_Witness ==
  /\ fnOut.kind = "generic"
  /\ Range(usernameSelectors) \cap fnIn.page.vis # {}
  /\ Range(passwordSelectors) \cap fnIn.page.vis # {}
  /\ Range(submitSelectors) \cap fnIn.page.vis = {}
  /\ Range(submitSelectors) \cap fnIn.page.hid # {}
  /\ fnIn.ud = udAll
  /\ ~fnOut.flow.ret

\* C7: one applyToJob call runs at most one login flow, at most once; when
\* handleAuthentication fails the call returns {success: false, message:
\* 'Authentication failed'} and neither searches for nor clicks the apply button.
C7_SingleAttemptThenAbort ==
  last.called =>
    /\ OpCount(last.ev, "flow") <= 1
    /\ (last.authCalled /\ ~last.authRet) =>
         /\ last.result = Result(FALSE, "Authentication failed")
         /\ ~HasOp(last.ev, "findApplyButton")
         /\ ~HasOp(last.ev, "clickApply")

\* The login flow ran once and failed on a page that shows a visible apply button.
C7_Witness ==
  /\ last.called
  /\ last.authCalled
  /\ ~last.authRet
  /\ OpCount(last.ev, "flow") = 1
  /\ last.jobPage = pSessionOk
  /\ last.strategy = "generic"
  /\ last.result.message = "Authentication failed"

\* C8: batchApply's urls are the non-empty lines of the file, in file order;
\* applyToJob is called once per url in that order and each call leaves one result,
\* in that order; no outcome of a call ends the loop before the last url.
C8_OneCallAndOneResultPerUrl ==
  /\ urls = FilterSeq(fileLines, Urls)
  /\ pc # "aborted"
  /\ idx <= Len(urls)
  /\ calls = SubSeq(urls, 1, idx)
  /\ Len(results) = idx
  /\ \A k \in 1..Len(results) : results[k].url = urls[k]
  /\ pc = "done" => idx = Len(urls)

\* A finished batch of two urls and a blank line: the first application failed to
\* authenticate, the second threw inside applyToJob, and both left a result.
C8_Witness ==
  /\ pc = "done"
  /\ Len(fileLines) > Len(urls)
  /\ Len(results) = 2
  /\ results[1].message = "Authentication failed"
  /\ results[2].message = "Error: page.goto"

-----------------------------------------------------------------------------
(* Properties of the completeness analysis (C9, C10) *)

\* The rule order of identifyMissingFields
RuleOrder ==
  <<"fullName", "email", "phone", "location", "dateOfBirth", "education",
    "completeEducationDetails", "workExperience", "completeWorkExperienceDetails",
    "skills", "languages", "references", "workAuthorizationStatus",
    "socialMediaProfiles">>

\* s is t with some elements left out
RECURSIVE IsSubsequence(_, _)
IsSubsequence(s, t) ==
  IF s = <<>> THEN TRUE
  ELSE IF t = <<>> THEN FALSE
  ELSE IF Head(s) = Head(t) THEN IsSubsequence(Tail(s), Tail(t))
  ELSE IsSubsequence(s, Tail(t))

\* Skills and languages are empty, everything else is populated and complete, and no
\* string of the profile holds a citizenship or social keyword
SkillsAndLanguagesOnlyMissing(profile) ==
  /\ \A f \in DOMAIN profile.personalInfo : ~Falsy(profile.personalInfo[f])
  /\ profile.education # <<>>
  /\ \A k \in 1..Len(profile.education) :
       ~Falsy(profile.education[k].degree) /\ ~Falsy(profile.education[k].dates)
  /\ profile.experience # <<>>
  /\ \A k \in 1..Len(profile.experience) :
       ~Falsy(profile.experience[k].title) /\ ~Falsy(profile.experience[k].dates)
  /\ profile.skills = <<>>
  /\ profile.languages = <<>>
  /\ \A piece \in Range(StringsOf(profile)) :
       ~authorizationRegex(piece) /\ ~socialRegex(piece)

\* C9, as stated: the ticket list an evaluation of identifyMissingFields produces is
\* a subsequence of the rule order, two evaluations of the same profile produce the
\* same list, and the profile that lacks only skills and languages gives skills,
\* languages, references, workAuthorizationStatus, socialMediaProfiles.
C9_RuleOrderOnEveryEvaluation ==
  parser.kind = "ResumeParser" =>
    \A k \in 1..Len(parser.evals) :
      /\ IsSubsequence(parser.evals[k].tickets, RuleOrder)
      /\ \A j \in 1..Len(parser.evals) :
           parser.evals[j].profile = parser.evals[k].profile
             => parser.evals[j].tickets = parser.evals[k].tickets
      /\ SkillsAndLanguagesOnlyMissing(parser.evals[k].profile)
           => parser.evals[k].tickets =
                <<"skills", "languages", "references", "workAuthorizationStatus",
                  "socialMediaProfiles">>

\* C10, as stated: the list every parseResume call on a ResumeParser returns holds
\* each ticket at most once and only tickets the rules yield for the profile at that
\* call.
C10_FreshListOnEveryPass ==
  parser.kind = "ResumeParser" =>
    \A k \in 1..Len(parser.evals) :
      LET returned == parser.evals[k].tickets
      IN /\ \A i, j \in 1..Len(returned) : returned[i] = returned[j] => i = j
         /\ Range(returned) \subseteq Range(Tickets(parser.evals[k].profile))

-----------------------------------------------------------------------------
(* Properties of the extraction (C11 - C14) *)

\* The entry sequences and the skills list of a profile
Fragments(profile) ==
  [education |-> profile.education, experience |-> profile.experience,
   skills |-> profile.skills, languages |-> profile.languages,
   certifications |-> profile.certifications]

\* C11, as stated: extraction run twice on the same text by one ResumeParser leaves
\* the education, experience, languages and certifications sequences and the skills
\* list as the single run left them.
C11_SecondExtractionAddsNothing ==
  parser.kind = "ResumeParser" =>
    \A k \in 2..Len(parser.evals) :
      parser.evals[k].text = parser.evals[k - 1].text
        => Fragments(parser.evals[k].profile) = Fragments(parser.evals[k - 1].profile)

\* No pattern of the extraction matches in the text: extraction from it into the
\* profile of a new ResumeParser leaves that profile as the constructor built it
NoPatternMatches(text) ==
  extractInformation(NewResumeParser.userData, text) = NewResumeParser.userData

\* Every personalInfo field, every entry sequence and the skills list hold a value
Populated(profile) ==
  /\ \A f \in DOMAIN profile.personalInfo : ~Falsy(profile.personalInfo[f])
  /\ profile.education # <<>>
  /\ profile.experience # <<>>
  /\ profile.skills # <<>>
  /\ profile.languages # <<>>
  /\ profile.certifications # <<>>

\* C12: extraction on a text in which no pattern matches leaves the profile as it
\* was, and no extraction turns a non-empty personalInfo field or a non-empty skills
\* list into null or empty.
C12_ExtractionNeverDegrades ==
  parser.kind = "ResumeParser" =>
    \A k \in 1..Len(parser.evals) :
      LET before == parser.evals[k].before
          after == parser.evals[k].profile
      IN /\ NoPatternMatches(parser.evals[k].text) => after = before
         /\ \A f \in DOMAIN before.personalInfo :
              ~Falsy(before.personalInfo[f]) => ~Falsy(after.personalInfo[f])
         /\ before.skills # <<>> => after.skills # <<>>

\* A populated profile went through an extraction on a non-empty text without a
\* match and came out unchanged.
C12_Witness ==
  /\ parser.kind = "ResumeParser"
  /\ Len(parser.evals) = 2
  /\ Populated(parser.evals[2].before)
  /\ parser.evals[2].text = KeywordsBlock
  /\ NoPatternMatches(parser.evals[2].text)
  /\ parser.evals[2].profile = parser.evals[2].before

\* The saved profile, the empty profile before a file exists
SavedProfile == IF userDataFile = NoFile THEN NewResumeParser.userData ELSE userDataFile

\* C13, as stated: every entry of education, experience, languages and
\* certifications of the saved profile has a non-empty institution, company,
\* language or name, whatever commands were run.
C13_EveryEntryHasPrimaryField ==
  /\ \A k \in 1..Len(SavedProfile.education) : ~Falsy(SavedProfile.education[k].institution)
  /\ \A k \in 1..Len(SavedProfile.experience) : ~Falsy(SavedProfile.experience[k].company)
  /\ \A k \in 1..Len(SavedProfile.languages) : ~Falsy(SavedProfile.languages[k].language)
  /\ \A k \in 1..Len(SavedProfile.certifications) :
       ~Falsy(SavedProfile.certifications[k].name)

\* The capture keeps no line of the text that holds one of the keywords ending it
\* (its first line is the heading the capture starts with)
EndsBefore(capture, ends) ==
  capture # Null => \A k \in 2..Len(capture) : SectionWords(capture[k]) \cap ends = {}

\* C14, as stated: the end of a section capture is exclusive. For every text
\* extracted from, the education, experience, skills, languages and
\* certifications captures hold neither the heading of the section that ends
\* them nor anything after it.
C14_CaptureEndsBeforeNextHeading ==
  parser.kind = "ResumeParser" =>
    \A k \in 1..Len(parser.evals) :
      /\ EndsBefore(educationSection(parser.evals[k].text), educationEnds)
      /\ EndsBefore(experienceSection(parser.evals[k].text), experienceEnds)
      /\ EndsBefore(skillsSection(parser.evals[k].text), skillsEnds)
      /\ EndsBefore(languageSection(parser.evals[k].text), languageEnds)
      /\ EndsBefore(certSection(parser.evals[k].text), certEnds)

-----------------------------------------------------------------------------
(* Properties of the content script (C15 - C19) *)

\* The keyword tests of the classifier in their order, those of the three name
\* categories first
TestOrder ==
  <<"firstName", "lastName", "fullName", "email", "phone", "address", "city",
    "state", "zip", "education", "experience", "skills">>

\* The test of a category holds for a control
Matches(input, category) ==
  CASE category = "firstName" -> AnyIncludes(input, "name") /\ AnyIncludes(input, "first")
    [] category = "lastName" -> AnyIncludes(input, "name") /\ AnyIncludes(input, "last")
    [] category = "fullName" -> AnyIncludes(input, "name")
    [] category = "email" -> AnyIncludes(input, "email") \/ input.type = "email"
    [] category = "phone" -> AnyIncludes(input, "phone") \/ input.type = "tel"
    [] category = "zip" -> AnyIncludes(input, "zip") \/ AnyIncludes(input, "postal")
    [] category = "skills" -> AnyIncludes(input, "skill")
    [] OTHER -> AnyIncludes(input, category)

\* The control was just classified: the last message was analyzePage
Analysed == request.action = "analyzePage"

\* C15: after analyzePage every control has the first category of the order whose
\* test holds for its name, id, placeholder, label or type, and none when no
\* test holds.
C15_FirstMatchingCategory ==
  Analysed =>
    \A k \in 1..Len(document) :
      LET hits == {c \in 1..Len(TestOrder) : Matches(document[k], TestOrder[c])}
      IN IF hits = {} THEN document[k].dataset.fieldType = NoFieldType
         ELSE /\ document[k].dataset.fieldType \in Range(TestOrder)
              /\ \E c \in hits : /\ TestOrder[c] = document[k].dataset.fieldType
                                 /\ \A d \in hits : c <= d

\* A page was analysed that holds a control named first_name_email, now firstName,
\* and a control no test holds for
C15_Witness ==
  /\ Analysed
  /\ \E k \in 1..Len(document) :
       /\ document[k].name = <<"first", "_", "name", "_", "email">>
       /\ document[k].dataset.fieldType = "firstName"
  /\ \E k \in 1..Len(document) : document[k].dataset.fieldType = NoFieldType

\* The controls of the page without field type
Unclassified == {k \in 1..Len(document) : document[k].dataset.fieldType = NoFieldType}

\* C16: an autoFill message never assigns the value of a control whose
\* classification is none, and filledFields counts only classified controls that
\* were written, whatever the profile and the page.
C16_UnclassifiedNeverFilled ==
  [][request'.action = "autoFill" =>
       /\ \A k \in Unclassified :
            /\ document'[k].value = document[k].value
            /\ ~document'[k].written
       /\ response'.filledFields =
            Cardinality({k \in 1..Len(document) \ Unclassified : document'[k].written})]_vars

\* autoFill ran on a page with an analysed control without field type and wrote
\* another control
C16_Witness ==
  /\ request.action = "autoFill"
  /\ \E k \in Unclassified : document[k].dataset.automationAnalyzed
  /\ response.filledFields = 1

\* The analysed select controls of the page that have a field type
Selects ==
  {k \in 1..Len(document) : /\ document[k].tagName = "SELECT"
                            /\ document[k].dataset.automationAnalyzed
                            /\ document[k].dataset.fieldType # NoFieldType}

\* The options of a control whose text contains, letter case aside, the value
\* the profile gives for the control; none when the profile gives no value
OptionsFor(input, profile) ==
  LET value == ValueFor(input, input.dataset.fieldType, profile)
  IN IF ~Truthy(value) THEN {}
     ELSE {o \in 1..Len(input.options) :
             StrIncludes(toLowerCase(input.options[o].text), toLowerCase(value[1]))}

\* C17: an autoFill message gives a select control the value of an option whose
\* text contains the computed value, letter case aside; when no option does, the
\* value of the control stays as it was and the control is not counted as filled.
C17_SelectTakesMatchingOptionOrStays ==
  [][request'.action = "autoFill" =>
       LET unmatched == {k \in Selects : OptionsFor(document[k], request'.userData) = {}}
       IN /\ \A k \in Selects \ unmatched :
               \E o \in OptionsFor(document[k], request'.userData) :
                 document'[k].value = document[k].options[o].value
          /\ \A k \in unmatched : /\ document'[k].value = document[k].value
                                  /\ ~document'[k].written
          /\ response'.filledFields =
               Cardinality({k \in 1..Len(document) \ unmatched : document'[k].written})]_vars

\* autoFill ran with the skills Go and Rust and the name Jane on a page with a
\* skills select offering Golang and Python, left as it was, and a name select,
\* now on its option JANE DOE
C17_Witness ==
  /\ request.action = "autoFill"
  /\ request.userData.skills = <<<<"Go">>, <<"Rust">>>>
  /\ Len(document) = 2
  /\ 1 \in Selects
  /\ document[1].options = SkillOptions
  /\ document[1].value = SkillOptions[1].value
  /\ ~document[1].written
  /\ 2 \in Selects
  /\ document[2].options = NameOptions
  /\ document[2].value = <<"1">>
  /\ response.filledFields = 1

\* The analysed controls with a field type that the last autoFill did not write
NotFilled ==
  {k \in 1..Len(document) : /\ document[k].dataset.automationAnalyzed
                            /\ document[k].dataset.fieldType # NoFieldType
                            /\ ~document[k].written}

\* Why the profile of the last autoFill left a control unfilled
ReasonFor(input) ==
  IF Truthy(ValueFor(input, input.dataset.fieldType, request.userData))
  THEN "no matching option"
  ELSE "no value"

\* C18, as stated: the result of autoFill holds the count of the filled controls
\* and a list of the skipped ones, where every classified control that was not
\* filled appears exactly once with its reason, 'no value' or 'no matching option'.
C18_ResultListsSkippedFields ==
  request.action = "autoFill" =>
    /\ response.filledFields = Cardinality({k \in 1..Len(document) : document[k].written})
    /\ "skipped" \in DOMAIN response
    /\ \A k \in NotFilled :
         /\ Cardinality({i \in 1..Len(response.skipped) :
                           response.skipped[i].field = k}) = 1
         /\ \A i \in 1..Len(response.skipped) :
              response.skipped[i].field = k
                => response.skipped[i].reason = ReasonFor(document[k])

\* The tokens of a string that white space (blanks, tabs) separates (cur: the
\* token begun before)
RECURSIVE WhitespaceTokens(_, _)
WhitespaceTokens(str, cur) ==
  IF str = <<>> THEN IF cur = <<>> THEN <<>> ELSE <<cur>>
  ELSE IF Head(str) \in {" ", "\t"}
  THEN (IF cur = <<>> THEN <<>> ELSE <<cur>>) \o WhitespaceTokens(Tail(str), <<>>)
  ELSE WhitespaceTokens(Tail(str), Append(cur, Head(str)))

\* C19, as stated: with a non-empty fullName, autoFill gives a firstName control
\* the first token of fullName that white space separates and a lastName control
\* the last one, also when the name has several blanks in a row or white space
\* around it.
C19_FirstAndLastToken ==
  request.action = "autoFill" /\ Truthy(request.userData.personalInfo.fullName) =>
    LET tokens == WhitespaceTokens(request.userData.personalInfo.fullName[1], <<>>)
    IN \A k \in 1..Len(document) :
         document[k].dataset.automationAnalyzed /\ document[k].tagName = "INPUT" =>
           /\ document[k].dataset.fieldType = "firstName"
                => document[k].value = tokens[1]
           /\ document[k].dataset.fieldType = "lastName"
                => document[k].value = tokens[Len(tokens)]

-----------------------------------------------------------------------------
(* Properties of the known-site login flows (C20) *)

\* The last applyToJob call ran the linkedin, indeed or glassdoor flow
KnownSiteFlow ==
  /\ last.called
  /\ last.authCalled
  /\ last.strategy \in {"linkedin", "indeed", "glassdoor"}

\* What the flow of the last call did, in order: the operations after its start,
\* up to the search for the apply button that follows a successful login
FlowOps ==
  LET from == CHOOSE k \in 1..Len(last.ev) : last.ev[k].op = "flow"
      after == {k \in from..Len(last.ev) : last.ev[k].op = "findApplyButton"}
      to == IF after = {} THEN Len(last.ev) ELSE (CHOOSE k \in after : TRUE) - 1
  IN [k \in 1..(to - from) |-> last.ev[from + k].op]

IsPrefix(s, t) == Len(s) <= Len(t) /\ s = SubSeq(t, 1, Len(s))

\* The flow went the way of the complete flow with these fill and submit steps as
\* far as it got (an exception ends it): navigation first and only from a page that
\* is not the login page, then the steps, the wait and the marker; the Session is
\* set and saved after the marker was seen, and not otherwise.
FollowsOrder(steps) ==
  LET complete == (IF last.jobPage.atLogin THEN <<>> ELSE <<"goto">>) \o steps
                    \o <<"wait", "marker", "set", "save">>
      done == IF FlowOps # <<>> /\ FlowOps[Len(FlowOps)] = "throw"
              THEN SubSeq(FlowOps, 1, Len(FlowOps) - 1) ELSE FlowOps
  IN /\ IsPrefix(done, complete)
     /\ last.key # NoKey <=> FlowOps = complete
     /\ last.authRet <=> FlowOps = complete

\* The Session of the last login has the cookie of the site's name, none when the
\* browser holds no such cookie, in the Map and in the file
KeepsNamedCookie ==
  last.key # NoKey =>
    /\ MapGet(loggedInSites, last.key).cookie = SessionCookieOf(last.strategy, last.jar)
    /\ \E k \in 1..Len(sessionsFile) :
         /\ sessionsFile[k].domain = last.key
         /\ sessionsFile[k].cookie = SessionCookieOf(last.strategy, last.jar)

\* C20, as stated: every known-site flow fills the credentials, then submits once,
\* waits and checks the marker.
C20_FillThenSubmitOnce ==
  KnownSiteFlow =>
    /\ \E n \in 1..2 : FollowsOrder([k \in 1..n |-> "fill"] \o <<"click">>)
    /\ KeepsNamedCookie

\* The fill and submit steps of each flow: indeed submits the email before it
\* fills the password
LoginSteps(strategy) ==
  IF strategy = "indeed" THEN <<"fill", "click", "fill", "click">>
  ELSE <<"fill", "fill", "click">>

\* C20, amended: a known-site flow navigates to the login page only when it is not
\* there, then fills and submits (linkedin, glassdoor: both fields, one submit;
\* indeed: the email, a submit, the password, a second submit), waits and checks
\* the marker; the Session is set and saved only after the marker was seen, with
\* the cookie named li_at, JSESSIONID or GSESSIONID.
C20_LoginFlowOrder ==
  KnownSiteFlow => FollowsOrder(LoginSteps(last.strategy)) /\ KeepsNamedCookie

\* The indeed flow navigated, ran to its end and kept the JSESSIONID cookie
C20_Witness ==
  /\ KnownSiteFlow
  /\ last.strategy = "indeed"
  /\ ~last.jobPage.atLogin
  /\ FlowOps = <<"goto", "fill", "click", "fill", "click", "wait", "marker", "set", "save">>
  /\ MapGet(loggedInSites, last.key).cookie.name = "JSESSIONID"

-----------------------------------------------------------------------------
(* Properties of the education and experience rules and of the references      *)
(* ticket (C21, C22)                                                           *)

\* The tickets pass k of the parser appended: the list the call returned without the
\* list the call before it returned
Appended(k) ==
  LET returned == parser.evals[k].tickets
      had == IF k = 1 THEN 0 ELSE Len(parser.evals[k - 1].tickets)
  IN SubSeq(returned, had + 1, Len(returned))

\* How often a ticket is in a list
Count(list, ticket) == Cardinality({i \in 1..Len(list) : list[i] = ticket})

\* The entries of a sequence that lack the field or the dates
Incomplete(entries, field) ==
  {i \in 1..Len(entries) : Falsy(entries[i][field]) \/ Falsy(entries[i].dates)}

\* C21: in every pass the education rule appends 'education' once and no
\* 'completeEducationDetails' when the education list is empty, and
\* 'completeEducationDetails' exactly once and no 'education' when the list is not
\* empty and at least one entry lacks degree or dates, and nothing otherwise; the
\* experience rule does the same with 'workExperience',
\* 'completeWorkExperienceDetails', title and dates.
C21_OneTicketPerRule ==
  parser.kind = "ResumeParser" =>
    \A k \in 1..Len(parser.evals) :
      LET profile == parser.evals[k].profile
          n(ticket) == Count(Appended(k), ticket)
          B(cond) == IF cond THEN 1 ELSE 0
      IN /\ n("education") = B(profile.education = <<>>)
         /\ n("completeEducationDetails") =
              B(profile.education # <<>> /\ Incomplete(profile.education, "degree") # {})
         /\ n("workExperience") = B(profile.experience = <<>>)
         /\ n("completeWorkExperienceDetails") =
              B(profile.experience # <<>> /\ Incomplete(profile.experience, "title") # {})

\* The second pass evaluated a profile with two education entries without a degree
\* and two experience entries without a title, and appended each detail ticket once.
C21_Witness ==
  /\ parser.kind = "ResumeParser"
  /\ Len(parser.evals) = 2
  /\ Cardinality(Incomplete(parser.evals[2].profile.education, "degree")) = 2
  /\ Cardinality(Incomplete(parser.evals[2].profile.experience, "title")) = 2
  /\ Count(Appended(2), "completeEducationDetails") = 1
  /\ Count(Appended(2), "completeWorkExperienceDetails") = 1

\* C22: the list every parseResume call on a ResumeParser returns holds
\* 'references', appended by that pass, so it is never empty.
C22_ReferencesInEveryPass ==
  parser.kind = "ResumeParser" =>
    \A k \in 1..Len(parser.evals) :
      /\ Count(Appended(k), "references") = 1
      /\ parser.evals[k].tickets # <<>>

\* A pass on a resume with the header and every section left a populated profile
\* and still returned the references ticket, ahead of the two keyword tickets.
C22_Witness ==
  /\ parser.kind = "ResumeParser"
  /\ Len(parser.evals) = 1
  /\ Populated(parser.evals[1].profile)
  /\ parser.evals[1].tickets =
       <<"references", "workAuthorizationStatus", "socialMediaProfiles">>

-----------------------------------------------------------------------------
(* Properties of the section captures and of the entries (C23 - C25) *)

\* The heading keywords that start the capture of each kind of section
Anchors ==
  [education |-> {"EDUCATION", "ACADEMIC BACKGROUND", "QUALIFICATIONS"},
   experience |-> {"EXPERIENCE", "EMPLOYMENT", "WORK HISTORY", "PROFESSIONAL BACKGROUND"},
   skills |-> {"SKILLS", "TECHNICAL SKILLS", "CORE COMPETENCIES"},
   languages |-> {"LANGUAGES", "LANGUAGE PROFICIENCY"},
   certifications |-> {"CERTIFICATIONS", "CERTIFICATES", "LICENSES"}]

\* The capture of each kind of section in a text
Captures(text) ==
  [education |-> educationSection(text), experience |-> experienceSection(text),
   skills |-> skillsSection(text), languages |-> languageSection(text),
   certifications |-> certSection(text)]

\* The lines of a text after line i that hold a heading of a kind other than kind
OtherHeadings(text, i, kind) ==
  {j \in (i + 1)..Len(text) :
     \E other \in DOMAIN Anchors \ {kind} : SectionWords(text[j]) \cap Anchors[other] # {}}

\* The capture of the kind goes no further than the first heading of another kind
\* after its anchor (that heading counted in), and to the last line without one
ClosedByNextHeading(text, kind) ==
  LET capture == Captures(text)[kind]
      anchor == CHOOSE i \in 1..Len(text) :
                  /\ SectionWords(text[i]) \cap Anchors[kind] # {}
                  /\ \A j \in 1..(i - 1) : SectionWords(text[j]) \cap Anchors[kind] = {}
      next == OtherHeadings(text, anchor, kind)
      first == CHOOSE j \in next : \A m \in next : j <= m
  IN capture # Null =>
       IF next = {} THEN Len(capture) = Len(text) - anchor + 1
       ELSE Len(capture) <= first - anchor + 1

\* C23, as stated: for every text extracted from and every kind of section, the
\* capture of the kind runs from its first heading to the next heading of any of
\* the other four kinds, and to the end of the text when none follows.
C23_AnyOtherHeadingClosesCapture ==
  parser.kind = "ResumeParser" =>
    \A k \in 1..Len(parser.evals) :
      \A kind \in DOMAIN Anchors : ClosedByNextHeading(parser.evals[k].text, kind)

\* The entries pass k pushed to a sequence of the profile
Pushed(k, field) ==
  LET before == parser.evals[k].before[field]
      after == parser.evals[k].profile[field]
  IN SubSeq(after, Len(before) + 1, Len(after))

\* A line of the capture holds an institution name
HasInstitution(eduText) ==
  eduText # Null /\ \E i \in 1..Len(eduText) : universityRegex(eduText[i]) # ""

\* A line follows the heading of the capture: group 1 of companyRegex,
\* ([A-Za-z0-9\s,\.]+), matches at the first character of every line of the model
HasCompany(expText) == expText # Null /\ Len(expText) > 1

\* A line of the capture holds a certification name
HasCertificationName(certText) ==
  certText # Null /\ \E i \in 1..Len(certText) : certRegex(certText[i]) # ""

\* C24, as stated: a pass over a text whose education capture holds an institution
\* name pushes an education entry, one whose experience capture holds a company
\* pushes an experience entry, and one whose certifications capture holds a
\* certification name pushes a certification entry, whether or not the capture
\* holds a degree, dates, a title or an issuer.
C24_RecordKeptWithoutSecondaryFields ==
  parser.kind = "ResumeParser" =>
    \A k \in 1..Len(parser.evals) :
      LET capture == Captures(parser.evals[k].text)
      IN /\ HasInstitution(capture.education) => Pushed(k, "education") # <<>>
         /\ HasCompany(capture.experience) => Pushed(k, "experience") # <<>>
         /\ HasCertificationName(capture.certifications)
              => Pushed(k, "certifications") # <<>>

\* The text holds the language name with a proficiency keyword in the window after it
NamedWithLevel(text, language) ==
  \E i \in 1..Len(text) :
    MentionsLanguage(text[i], language) /\ LevelAfter(text[i], language) # ""

\* C25: a pass over a text without a languages section pushes an entry for a
\* language of the vocabulary exactly when the text holds its name with a
\* proficiency keyword in the window after it, so a name without one adds nothing;
\* and no pass, with or without a languages section, pushes two entries for one
\* language.
C25_LanguageOnlyWithLevelAndOnce ==
  parser.kind = "ResumeParser" =>
    \A k \in 1..Len(parser.evals) :
      LET text == parser.evals[k].text
          pushed == Pushed(k, "languages")
      IN /\ languageSection(text) = Null =>
              \A n \in 1..Len(commonLanguages) :
                (\E i \in 1..Len(pushed) : pushed[i].language = <<commonLanguages[n]>>)
                  <=> NamedWithLevel(text, commonLanguages[n])
         /\ \A i, j \in 1..Len(pushed) :
              pushed[i].language = pushed[j].language => i = j

\* The first pass read a text that names English outside a languages section and
\* without a level and pushed nothing; the second read one that names it with a
\* level and pushed one entry.
C25_Witness ==
  /\ parser.kind = "ResumeParser"
  /\ Len(parser.evals) = 2
  /\ parser.evals[1].text = MentionBlock
  /\ languageSection(parser.evals[1].text) = Null
  /\ Pushed(1, "languages") = <<>>
  /\ parser.evals[2].text = MentionWithLevelBlock
  /\ Pushed(2, "languages") = <<[language |-> <<"English">>, proficiency |-> <<"fluent">>]>>

-----------------------------------------------------------------------------
(* Properties of the values autoFillApplication writes (C26, C30) *)

\* What a textarea of the kind is to hold: one text per entry, in list order, with
\* the separator between two entries
RECURSIVE History(_, _)
History(kind, entries) ==
  LET e == Head(entries)
      text == IF kind = "education"
              THEN Template(e.institution) \o <<", ">> \o Template(e.degree)
                     \o <<", ">> \o Template(e.dates)
              ELSE Template(e.company) \o <<", ">> \o Template(e.title)
                     \o <<", ">> \o Template(e.dates) \o <<"\n">>
                     \o Template(e.description)
      sep == IF kind = "education" THEN "\n" ELSE "\n\n"
  IN IF Len(entries) = 1 THEN text
     ELSE text \o <<sep>> \o History(kind, Tail(entries))

\* What a single-line control of the kind is to hold: the entry at index 0 alone
MostRecent(kind, entries) ==
  IF kind = "education"
  THEN Template(entries[1].institution) \o <<" - ">> \o Template(entries[1].degree)
  ELSE Template(entries[1].company) \o <<" - ">> \o Template(entries[1].title)

\* The controls autoFillApplication wrote whose field type is the kind
WrittenOf(kind) ==
  {k \in 1..Len(document) : document[k].written /\ document[k].dataset.fieldType = kind}

\* C26: after autoFillApplication, a written textarea of field type education or
\* experience holds the text of every entry of that list of the profile, in list
\* order, and a written control that is no textarea holds the text of the entry at
\* index 0 alone.
C26_TextareaAllEntriesElseFirst ==
  request.action = "autoFill" =>
    \A kind \in {"education", "experience"} :
      \A k \in WrittenOf(kind) :
        /\ request.userData[kind] # <<>>
        /\ document[k].value =
             IF document[k].tagName = "TEXTAREA"
             THEN History(kind, request.userData[kind])
             ELSE MostRecent(kind, request.userData[kind])

\* A page with an education textarea and a single-line experience control, filled
\* from a profile with two entries of each kind.
C26_Witness ==
  /\ request.action = "autoFill"
  /\ Len(document) = 2
  /\ Len(request.userData.education) = 2
  /\ Len(request.userData.experience) = 2
  /\ 1 \in WrittenOf("education")
  /\ document[1].tagName = "TEXTAREA"
  /\ document[1].value =
       <<"Acme University", ", ", "null", ", ", "2014 - 2018", "\n",
         "Austin High", ", ", "Diploma", ", ">>
  /\ 2 \in WrittenOf("experience")
  /\ document[2].tagName = "INPUT"
  /\ document[2].value = <<"Initech", " - ", "Engineer">>

\* The field types the switch of autoFillApplication has a case for
MappedTypes ==
  {"firstName", "lastName", "fullName", "email", "phone", "address", "education",
   "experience", "skills"}

\* The controls of the page classified city, state or zip
LocationParts ==
  {k \in 1..Len(document) : document[k].dataset.fieldType \in {"city", "state", "zip"}}

\* C30: an autoFill message leaves every control classified city, state or zip as
\* it was and does not count it, whatever the profile; it writes only controls of
\* the nine field types the switch has a case for; and it leaves a control as it
\* was when the value computed for it is null or empty.
C30_LocationPartsNeverFilled ==
  [][request'.action = "autoFill" =>
       /\ \A k \in LocationParts :
            /\ document'[k].value = document[k].value
            /\ ~document'[k].written
       /\ \A k \in 1..Len(document) :
            /\ document'[k].written => document[k].dataset.fieldType \in MappedTypes
            /\ ~Truthy(ValueFor(document[k], document[k].dataset.fieldType,
                                request'.userData))
                 => /\ document'[k].value = document[k].value
                    /\ ~document'[k].written
       /\ response'.filledFields =
            Cardinality({k \in 1..Len(document) \ LocationParts : document'[k].written})
    ]_vars

\* An analysed page with a city control and an address control was filled from a
\* profile with a location: the address control was written and counted, the city
\* control was not.
C30_Witness ==
  /\ request.action = "autoFill"
  /\ Truthy(request.userData.personalInfo.location)
  /\ Len(document) = 2
  /\ document[1].dataset.fieldType = "city"
  /\ ~document[1].written
  /\ document[1].value = <<>>
  /\ document[2].dataset.fieldType = "address"
  /\ document[2].written
  /\ response.filledFields = 1

-----------------------------------------------------------------------------
(* Properties of failed logins and of the result of applyToJob (C27 - C29) *)

\* The operations of a list of events with one of the names
OpsOf(ev, names) == {i \in 1..Len(ev) : ev[i].op \in names}

\* C27: an applyToJob call in which handleAuthentication returned false leaves
\* loggedInSites and data/sessions.json exactly as they were, and loggedInSites.set
\* and saveSessions are performed only in a call in which it returned true.
C27_FailedLoginLeavesStoreUnchanged ==
  [][(last'.called /\ calls' = Append(calls, last'.url)) =>
       /\ (last'.authCalled /\ ~last'.authRet) =>
            /\ loggedInSites' = loggedInSites
            /\ sessionsFile' = sessionsFile
       /\ OpsOf(last'.ev, {"set", "save"}) # {} => (last'.authCalled /\ last'.authRet)
    ]_vars

\* A LinkedIn login filled and submitted the form, found no marker and failed, with
\* a Session of an earlier login in the Map and in the file.
C27_Witness ==
  /\ last.called
  /\ last.authCalled
  /\ ~last.authRet
  /\ last.strategy = "linkedin"
  /\ OpsOf(last.ev, {"click"}) # {}
  /\ OpsOf(last.ev, {"throw"}) = {}
  /\ loggedInSites # <<>>
  /\ sessionsFile # <<>>

\* C28: applyToJob never lets an exception out and returns an object with the
\* fields success and message; success is true only when the login check found
\* nothing or handleAuthentication returned true, and the apply button was
\* clicked; and on a page without a login indicator handleAuthentication is not
\* called, no login flow runs and nothing is filled.
C28_ApplyAlwaysReturnsResult ==
  last.called =>
    /\ ~last.thrown
    /\ DOMAIN last.result = {"success", "message"}
    /\ last.result.success \in BOOLEAN
    /\ last.result.success =>
         /\ ~last.requiresLogin \/ last.authRet
         /\ OpsOf(last.ev, {"clickApply"}) # {}
    /\ ~checkLoginRequirement(last.jobPage) =>
         /\ ~last.authCalled
         /\ last.strategy = "none"
         /\ OpsOf(last.ev, {"flow", "fill", "click", "set", "save"}) = {}

\* A job page without a login indicator: no flow ran, the apply button was clicked,
\* and the call returned a result.
C28_Witness ==
  /\ last.called
  /\ ~checkLoginRequirement(last.jobPage)
  /\ ~last.authCalled
  /\ OpsOf(last.ev, {"clickApply"}) # {}
  /\ ~last.thrown
  /\ last.result.message = "Error: " \o processMultiPageApplication

\* C29: when the login flow of linkedin, indeed or glassdoor runs and the profile
\* has no credential for that site, handleAuthentication returns false, nothing is
\* filled, no submit is clicked, no Session is written, and applyToJob returns
\* 'Authentication failed' without an exception leaving it.
C29_MissingCredentialIsFailedLogin ==
  (/\ last.called
   /\ last.authCalled
   /\ last.strategy \in {"linkedin", "indeed", "glassdoor"}
   /\ CredentialOf(userData, last.strategy, Hostname(last.url)) = NoCred)
    => /\ ~last.authRet
       /\ ~last.thrown
       /\ last.result = Result(FALSE, "Authentication failed")
       /\ last.key = NoKey
       /\ OpsOf(last.ev, {"fill", "click", "set", "save"}) = {}

\* The indeed flow ran for a profile without indeedCredentials on a login page with
\* a visible form, and failed on the TypeError.
C29_Witness ==
  /\ last.called
  /\ last.authCalled
  /\ last.strategy = "indeed"
  /\ userData.indeedCredentials = NoCred
  /\ ~last.authRet
  /\ last.ev[Len(last.ev)] = Ev("throw", "TypeError")
  /\ last.result.message = "Authentication failed"

====
